---- MODULE Spec2Model ----
(***************************************************************************)
(* A model of document_schema.py: the schema parser (SchemaParser) and the *)
(* relationship renderers.  Text is a TLA+ string, read one character at a *)
(* time; every regular expression of the source is written as a syntax     *)
(* tree and run by a backtracking matcher that follows Python's re module  *)
(* (leftmost match, alternatives in order, greedy and lazy repetition).    *)
(***************************************************************************)
EXTENDS Integers, Sequences, FiniteSets, TLC

VARIABLES
    pc,            \* position in the run being modelled
    sql_content,   \* SchemaParser.sql_content: the raw text
    normalized,    \* parse(): the local `normalized`
    renormalized,  \* _normalize_sql applied to `normalized` once more
    given,         \* how the input of the run was put together
    table_def,     \* the table body handed to _parse_columns
    columns,       \* the list _parse_columns returned
    tables,        \* SchemaParser.tables: the registry, name -> Table
    relationships, \* SchemaParser.relationships
    tree,          \* the mapping _build_relationship_tree returned
    root_tables,   \* _generate_ascii_relationship_diagram: the local `root_tables`
    lines,         \* the list _generate_ascii_relationship_diagram returned
    csv_file,      \* main.py: the text of the CSV file
    fieldnames,    \* convert_csv_to_yaml: reader.fieldnames
    rows,          \* convert_csv_to_yaml: the local `rows`
    yaml_file,     \* the YAML document in the file handed to validate_yaml
    json_schema,   \* the JSON Schema build_schema returned
    outcome,       \* how the last call ended: returned, or the exception raised
    spans,         \* what each parenthesis scan of the parser found
    fragments,     \* the list _split_table_definition returned
    stack,         \* the calls of draw_relationships under way, the innermost last
    heap,          \* the set objects the calls were handed as `visited`
    root_idx,      \* the loop over root_tables: the index of the root at hand
    root_called,   \* whether draw_relationships was called for that root
    cursor,        \* _parse_tables: the local `i`, counted from 1
    pending        \* _parse_alter_table_foreign_keys: the alter_matches not yet handled

\* the state of the CSV conversion and of the validation
conversion == <<csv_file, fieldnames, rows, yaml_file, json_schema, outcome>>

\* the state of the scans run on their own
scanning == <<spans, fragments>>

\* the state of a rendering followed call by call
drawing == <<stack, heap, root_idx, root_called>>

\* the state of the loops of the parser followed pass by pass
looping == <<cursor, pending>>

vars == <<pc, sql_content, normalized, renormalized, given, table_def, columns,
          tables, relationships, tree, root_tables, lines, conversion, scanning, drawing,
          looping>>

\* no loop of the parser followed pass by pass
NoLooping == cursor = 0 /\ pending = <<>>

\* no rendering followed call by call
NoDrawing == stack = <<>> /\ heap = <<>> /\ root_idx = 0 /\ root_called = FALSE

\* no scan run on its own
NoScanning == spans = <<>> /\ fragments = <<>>

\* no conversion under way
NoConversion ==
    /\ csv_file = "" /\ fieldnames = <<>> /\ rows = <<>>
    /\ yaml_file = <<>> /\ json_schema = <<>> /\ outcome = "none"

(***************************************************************************)
(* Characters and Python's str methods.                                    *)
(***************************************************************************)
Ch(s, i) == SubSeq(s, i, i)

LowerLetters == "abcdefghijklmnopqrstuvwxyz"
UpperLetters == "ABCDEFGHIJKLMNOPQRSTUVWXYZ"
DigitChars == "0123456789"

CharsOf(s) == {Ch(s, i) : i \in 1..Len(s)}

\* \w, \d and \s of the re module, on the characters a dump is written in
WordCh == CharsOf(LowerLetters) \cup CharsOf(UpperLetters) \cup CharsOf(DigitChars) \cup {"_"}
DigitCh == CharsOf(DigitChars)
SpaceCh == {" ", "\t", "\n", "\r", "\f"}

ToUpper == [c \in CharsOf(LowerLetters) |->
              Ch(UpperLetters, CHOOSE i \in 1..Len(LowerLetters) : Ch(LowerLetters, i) = c)]
ToLower == [c \in CharsOf(UpperLetters) |->
              Ch(LowerLetters, CHOOSE i \in 1..Len(UpperLetters) : Ch(UpperLetters, i) = c)]

UpperCh(c) == IF c \in DOMAIN ToUpper THEN ToUpper[c] ELSE c

RECURSIVE Upper(_)
\* str.upper(), half by half
Upper(s) ==
    IF Len(s) = 0 THEN ""
    ELSE IF Len(s) = 1 THEN UpperCh(s)
    ELSE Upper(SubSeq(s, 1, Len(s) \div 2)) \o Upper(SubSeq(s, Len(s) \div 2 + 1, Len(s)))

\* the least and the greatest member of a non-empty set of numbers
Least(S) == CHOOSE x \in S : \A y \in S : x <= y
Greatest(S) == CHOOSE x \in S : \A y \in S : x >= y

\* str.lstrip(chars), str.rstrip(chars): drop the leading (trailing) run of cs
LStripSet(s, cs) ==
    LET k == CHOOSE k \in 1..(Len(s) + 1) :
                 /\ k = Len(s) + 1 \/ Ch(s, k) \notin cs
                 /\ \A j \in 1..(k - 1) : Ch(s, j) \in cs
    IN SubSeq(s, k, Len(s))
RStripSet(s, cs) ==
    LET k == CHOOSE k \in 0..Len(s) :
                 /\ k = 0 \/ Ch(s, k) \notin cs
                 /\ \A j \in (k + 1)..Len(s) : Ch(s, j) \in cs
    IN SubSeq(s, 1, k)

\* str.strip(), str.strip(chars)
Strip(s) == RStripSet(LStripSet(s, SpaceCh), SpaceCh)
StripChars(s, cs) == RStripSet(LStripSet(s, cs), cs)

\* str.startswith(p)
StartsWith(s, p) == Len(p) <= Len(s) /\ SubSeq(s, 1, Len(p)) = p

\* p in s
Contains(s, p) == \E i \in 1..(Len(s) - Len(p) + 1) : SubSeq(s, i, i + Len(p) - 1) = p

\* the members of a set of numbers, in increasing order
Sorted(S) == [i \in 1..Cardinality(S) |->
                CHOOSE x \in S : Cardinality({y \in S : y < x}) = i - 1]

\* the pieces of s between the positions `cuts` (increasing), the cut
\* characters left out: what str.split and the splitting loops return
PiecesAt(s, cuts) ==
    [i \in 1..(Len(cuts) + 1) |->
        SubSeq(s, IF i = 1 THEN 1 ELSE cuts[i - 1] + 1,
                  IF i = Len(cuts) + 1 THEN Len(s) ELSE cuts[i] - 1)]

\* str.split(",")
SplitComma(s) == PiecesAt(s, Sorted({i \in 1..Len(s) : Ch(s, i) = ","}))

RECURSIVE JoinWith(_, _)
\* sep.join(parts)
JoinWith(parts, sep) ==
    IF parts = <<>> THEN ""
    ELSE IF Len(parts) = 1 THEN parts[1]
    ELSE parts[1] \o sep \o JoinWith(Tail(parts), sep)

(***************************************************************************)
(* Regular expressions as syntax trees.                                    *)
(***************************************************************************)
RLit(s) == [t |-> "lit", s |-> s, ci |-> FALSE]   \* a literal
RLitI(s) == [t |-> "lit", s |-> s, ci |-> TRUE]   \* a literal under re.IGNORECASE
RCh(cs) == [t |-> "run", cs |-> cs, neg |-> FALSE, min |-> 1, max |-> 1, greedy |-> TRUE]  \* [cs]
RNot(cs) == [t |-> "run", cs |-> cs, neg |-> TRUE, min |-> 1, max |-> 1, greedy |-> TRUE]  \* [^cs]
\* c*, c+, c*? for a character class c (a node RCh or RNot); max 0: no limit
RStarOf(c) == [c EXCEPT !.min = 0, !.max = 0]
RPlusOf(c) == [c EXCEPT !.min = 1, !.max = 0]
RLazyOf(c) == [c EXCEPT !.min = 0, !.max = 0, !.greedy = FALSE]
RCat(rs) == [t |-> "cat", rs |-> rs]          \* r1 r2 ...
RAlt(rs) == [t |-> "alt", rs |-> rs]          \* r1|r2|...
RStar(r) == [t |-> "star", r |-> r]           \* (?:r)* for a compound r
ROpt(r) == RAlt(<<r, RCat(<<>>)>>)            \* r?
RGrp(n, r) == [t |-> "grp", n |-> n, r |-> r] \* (r), the n-th group
RBol == [t |-> "bol"]                         \* ^
REol == [t |-> "eol"]                         \* $ without re.MULTILINE
REolM == [t |-> "eolm"]                       \* $ with re.MULTILINE
RWb == [t |-> "wb"]                           \* \b

RW == RCh(WordCh)
RS == RCh(SpaceCh)
RD == RCh(DigitCh)
RWs == RPlusOf(RW)       \* \w+
RSs == RPlusOf(RS)       \* \s+
RSo == RStarOf(RS)       \* \s*
RDs == RPlusOf(RD)       \* \d+

\* the most groups an expression of the source has (fk_pattern)
MaxGroups == 5
NoGroups == [n \in 1..MaxGroups |-> <<0, 0>>]
NoMatch == [ok |-> FALSE, b |-> 0, e |-> 0, g |-> NoGroups]

IsWordAt(s, i) == i >= 1 /\ i <= Len(s) /\ Ch(s, i) \in WordCh

LitAt(s, i, h) ==
    /\ i + Len(h.s) - 1 <= Len(s)
    /\ IF h.ci
       THEN \A k \in 1..Len(h.s) : UpperCh(Ch(s, i + k - 1)) = UpperCh(Ch(h.s, k))
       ELSE SubSeq(s, i, i + Len(h.s) - 1) = h.s

InClass(c, h) == (c \in h.cs) # h.neg

\* how many characters from position i on are of the class of h (at most h.max)
RunLength(s, i, h) ==
    LET last == IF h.max = 0 \/ i + h.max - 1 > Len(s) THEN Len(s) ELSE i + h.max - 1
        k == CHOOSE k \in i..(last + 1) :
                 /\ k = last + 1 \/ ~InClass(Ch(s, k), h)
                 /\ \A j \in i..(k - 1) : InClass(Ch(s, j), h)
    IN k - i

\* A way to match: e the position after it, g the groups, key the choices made
\* (the rank of each choice among those the re module tries, in its order).
Start(p) == [e |-> p, g |-> NoGroups, key |-> <<>>]

\* the ways of S after choice number j
Chose(S, j) == {[st EXCEPT !.key = Append(@, j)] : st \in S}

\* a run of a character class from one way: the longest first when greedy,
\* the shortest first when lazy
RunWays(s, h, st, n) ==
    {[st EXCEPT !.e = @ + k, !.key = Append(@, IF h.greedy THEN n - k ELSE k)] :
        k \in h.min..n}

OpenGroup(n, S) == {[st EXCEPT !.g[n] = <<st.e, 0>>] : st \in S}
CloseGroup(n, S) == {[st EXCEPT !.g[n] = <<@[1], st.e>>] : st \in S}

AtEnd(s, i) == i = Len(s) + 1 \/ (i = Len(s) /\ Ch(s, i) = "\n")
AtLineEnd(s, i) == i = Len(s) + 1 \/ Ch(s, i) = "\n"
AtWordBoundary(s, i) == IsWordAt(s, i - 1) # IsWordAt(s, i)

RECURSIVE Ways(_, _, _)
RECURSIVE CatWays(_, _, _, _)
RECURSIVE StarWays(_, _, _)

\* Every way to match the expression h going on from the ways S.  The re
\* module backtracks through them in the order of their keys and returns
\* the first that lets the whole expression match.
Ways(s, h, S) ==
    CASE h.t = "lit" -> {[st EXCEPT !.e = @ + Len(h.s)] : st \in {x \in S : LitAt(s, x.e, h)}}
      [] h.t = "run" -> UNION {RunWays(s, h, st, RunLength(s, st.e, h)) : st \in S}
      [] h.t = "cat" -> CatWays(s, h.rs, 1, S)
      [] h.t = "alt" -> UNION {Ways(s, h.rs[j], Chose(S, j)) : j \in 1..Len(h.rs)}
      [] h.t = "star" -> StarWays(s, h.r, S)
      [] h.t = "grp" -> CloseGroup(h.n, Ways(s, h.r, OpenGroup(h.n, S)))
      [] h.t = "bol" -> {st \in S : st.e = 1}
      [] h.t = "eol" -> {st \in S : AtEnd(s, st.e)}
      [] h.t = "eolm" -> {st \in S : AtLineEnd(s, st.e)}
      [] h.t = "wb" -> {st \in S : AtWordBoundary(s, st.e)}

\* rs[k], rs[k + 1], ... one after the other
CatWays(s, rs, k, S) ==
    IF k > Len(rs) \/ S = {} THEN S
    ELSE CatWays(s, rs, k + 1, Ways(s, rs[k], S))

\* (?:r)*: one more r (choice 0) before none (choice 1); r takes a character
\* or more each time in every expression of the source
StarWays(s, r, S) ==
    IF S = {} THEN {}
    ELSE Chose(S, 1) \cup StarWays(s, r, Ways(s, r, Chose(S, 0)))

\* the first key in the order of the choices
KeyLess(a, b) ==
    \E i \in 1..Len(a) : i <= Len(b) /\ a[i] < b[i] /\ \A k \in 1..(i - 1) : a[k] = b[k]

First(W) == CHOOSE x \in W : \A y \in W : x = y \/ KeyLess(x.key, y.key)

\* a match is [ok, b, e, g]: it spans s[b..e-1]
MatchTo(b, w) == [ok |-> TRUE, b |-> b, e |-> w.e, g |-> w.g]
MatchOf(W, b) == IF W = {} THEN NoMatch ELSE MatchTo(b, First(W))

\* pattern.match(s, p - 1): the match at position p
MatchAt(re, s, p) == MatchOf(Ways(s, re, {Start(p)}), p)

\* re.match(re, s)
ReMatch(re, s) == MatchAt(re, s, 1)

MatchAtLeast(re, s, ps) == IF ps = {} THEN NoMatch ELSE MatchAt(re, s, Least(ps))

\* pattern.search(s, from - 1): the leftmost match starting at `from` or later
SearchFrom(re, s, from) ==
    MatchAtLeast(re, s, {p \in from..(Len(s) + 1) : Ways(s, re, {Start(p)}) # {}})

\* re.search(re, s)
ReSearch(re, s) == SearchFrom(re, s, 1)

\* match.group(n), "" standing for None as well as for an empty group
Group(s, m, n) == IF m.g[n] = <<0, 0>> THEN "" ELSE SubSeq(s, m.g[n][1], m.g[n][2] - 1)
HasGroup(m, n) == m.g[n] # <<0, 0>>

\* the match at each position that has one
MatchesIn(re, s) == {MatchAt(re, s, p) : p \in 1..(Len(s) + 1)} \ {NoMatch}

\* the matches of a set, one per start, by their start
ByStart(ms) ==
    [i \in 1..Cardinality(ms) |->
        CHOOSE m \in ms : Cardinality({x \in ms : x.b < m.b}) = i - 1]

\* where the scan of finditer goes on after the matches `taken`
ExitOf(taken, entry) == IF taken = <<>> THEN entry ELSE taken[Len(taken)].e

RECURSIVE Scan(_, _, _, _)
RECURSIVE ScanRest(_, _, _, _, _)

\* The scan of finditer over the candidates c[a..b], entered at `entry` (the
\* end of the match before, or 1): the matches it takes, those that start
\* at or after the end of the match taken before.  No expression the source
\* hands to finditer or sub matches the empty string.
Scan(c, a, b, entry) ==
    IF a > b THEN <<>>
    ELSE IF a = b THEN (IF c[a].b >= entry THEN <<c[a]>> ELSE <<>>)
    ELSE ScanRest(c, ((a + b) \div 2) + 1, b, entry, Scan(c, a, (a + b) \div 2, entry))

ScanRest(c, a, b, entry, taken) == taken \o Scan(c, a, b, ExitOf(taken, entry))

ScanAll(c) == Scan(c, 1, Len(c), 1)

\* list(re.finditer(re, s)): the matches left to right, not overlapping
FindIter(re, s) == ScanAll(ByStart(MatchesIn(re, s)))

RECURSIVE Concat(_, _, _)
\* parts[a] \o ... \o parts[b]
Concat(parts, a, b) ==
    IF a > b THEN ""
    ELSE IF a = b THEN parts[a]
    ELSE Concat(parts, a, (a + b) \div 2) \o Concat(parts, ((a + b) \div 2) + 1, b)

\* the text before the k-th match, from the end of the match before it, and
\* the replacement; after the last match, the rest of the text
SubPiece(s, repl, ms, k) ==
    IF k > Len(ms) THEN SubSeq(s, IF k = 1 THEN 1 ELSE ms[k - 1].e, Len(s))
    ELSE SubSeq(s, IF k = 1 THEN 1 ELSE ms[k - 1].e, ms[k].b - 1) \o repl

SubWith(s, repl, ms) ==
    Concat([k \in 1..(Len(ms) + 1) |-> SubPiece(s, repl, ms, k)], 1, Len(ms) + 1)

\* re.sub(re, repl, s)
ReSub(re, repl, s) == SubWith(s, repl, FindIter(re, s))

(***************************************************************************)
(* SchemaParser._normalize_sql                                             *)
(***************************************************************************)
\* r"--.*?$" under re.MULTILINE
LineCommentRe == RCat(<<RLit("--"), RLazyOf(RNot({"\n"})), REolM>>)
\* r"/\*.*?\*/" under re.DOTALL
BlockCommentRe == RCat(<<RLit("/*"), RLazyOf(RNot({})), RLit("*/")>>)
\* r"\s+"
WhitespaceRe == RSs

StripLineComments(sql) == ReSub(LineCommentRe, "", sql)
StripBlockComments(sql) == ReSub(BlockCommentRe, "", sql)
CollapseWhitespace(sql) == ReSub(WhitespaceRe, " ", sql)

_normalize_sql(sql) == CollapseWhitespace(StripBlockComments(StripLineComments(sql)))

(***************************************************************************)
(* The parenthesis scan and SchemaParser._split_table_definition           *)
(***************************************************************************)
\* The loops of the source that walk a text one character at a time keeping a
\* parenthesis depth are written by the depth they have reached at each
\* position: paren_depth after the characters a..k, starting from d.
DepthAfter(text, a, k, d) ==
    d + Cardinality({x \in a..k : Ch(text, x) = "("})
      - Cardinality({x \in a..k : Ch(text, x) = ")"})

\* while j < len(sql) and paren_depth > 0:
\*     if sql[j] == '(': paren_depth += 1
\*     elif sql[j] == ')': paren_depth -= 1
\*     j += 1
\* j is the position (from 1) of the next character, paren_depth positive; the
\* result is where the loop stopped and the depth it stopped with.
ScanParens(sql, j, paren_depth) ==
    IF \E k \in j..Len(sql) : DepthAfter(sql, j, k, paren_depth) = 0
    THEN LET k == CHOOSE k \in j..Len(sql) :
                      /\ DepthAfter(sql, j, k, paren_depth) = 0
                      /\ \A x \in j..(k - 1) : DepthAfter(sql, j, x, paren_depth) # 0
         IN [i |-> k + 1, paren_depth |-> 0]
    ELSE [i |-> Len(sql) + 1, paren_depth |-> DepthAfter(sql, j, Len(sql), paren_depth)]

\* for char in table_def: ... elif char == "," and paren_depth == 0:
\*     parts.append(current.strip()); current = ""
\* and after the loop: if current.strip(): parts.append(current.strip())
CommaCuts(body) ==
    Sorted({k \in 1..Len(body) : Ch(body, k) = "," /\ DepthAfter(body, 1, k - 1, 0) = 0})

StripAll(pieces) == [i \in 1..Len(pieces) |-> Strip(pieces[i])]

DropEmptyLast(parts) ==
    IF parts[Len(parts)] # "" THEN parts ELSE SubSeq(parts, 1, Len(parts) - 1)

_split_table_definition(body) == DropEmptyLast(StripAll(PiecesAt(body, CommaCuts(body))))

(***************************************************************************)
(* The scanning loops as they are written, one pass at a time, for texts   *)
(* short enough to follow them; positions count from 1.                    *)
(***************************************************************************)
\* paren_depth after the character c
DepthStep(c, paren_depth) ==
    IF c = "(" THEN paren_depth + 1
    ELSE IF c = ")" THEN paren_depth - 1
    ELSE paren_depth

RECURSIVE ScanLoop(_, _, _)
\* while j < len(sql) and paren_depth > 0: ...; j += 1
\* of _parse_tables, _extract_column_check_constraints,
\* _parse_alter_table_check_constraints and _parse_indexes
ScanLoop(sql, j, paren_depth) ==
    IF j <= Len(sql) /\ paren_depth > 0
    THEN ScanLoop(sql, j + 1, DepthStep(Ch(sql, j), paren_depth))
    ELSE [i |-> j, paren_depth |-> paren_depth]

\* a scan that found no closing parenthesis
NotClosed == [closed |-> FALSE, text |-> "", past |-> 0]

\* if paren_depth == 0: the slice [start_pos:i-1], and where the scan stopped
SliceOf(sql, start_pos, sc) ==
    IF sc.paren_depth = 0
    THEN [closed |-> TRUE, text |-> SubSeq(sql, start_pos, sc.i - 2), past |-> sc.i]
    ELSE NotClosed

\* the four sites of that loop, from the position open of the parenthesis
TableBodySpan(sql, open) == SliceOf(sql, open + 1, ScanLoop(sql, open + 1, 1))
ColumnCheckSpan(col_def, open) == SliceOf(col_def, open + 1, ScanLoop(col_def, open + 1, 1))
AlterCheckSpan(sql, open) == SliceOf(sql, open + 1, ScanLoop(sql, open + 1, 1))
IndexSpan(sql, open) == SliceOf(sql, open + 1, ScanLoop(sql, open + 1, 1))

RECURSIVE TableCheckLoop_MissesNesting(_, _, _, _)
\* the first closing parenthesis taken, whatever the depth
TableCheckLoop_MissesNesting(part, expression_start, i, paren_depth) ==
    IF i > Len(part) THEN NotClosed
    ELSE IF Ch(part, i) = ")"
    THEN [closed |-> TRUE, text |-> SubSeq(part, expression_start + 1, i - 1), past |-> i + 1]
    ELSE TableCheckLoop_MissesNesting(part, expression_start, i + 1, paren_depth)

RECURSIVE TableCheckLoop(_, _, _, _)
\* _parse_table_check_constraints: while i < len(part), from the opening
\* parenthesis with paren_depth 0, leaving at the closing parenthesis that
\* brings paren_depth back to 0; the slice is [expression_start+1:i]
TableCheckLoop(part, expression_start, i, paren_depth) ==
    IF i > Len(part) THEN NotClosed
    ELSE IF Ch(part, i) = ")" /\ paren_depth - 1 = 0
    THEN [closed |-> TRUE, text |-> SubSeq(part, expression_start + 1, i - 1), past |-> i + 1]
    ELSE TableCheckLoop(part, expression_start, i + 1, DepthStep(Ch(part, i), paren_depth))

TableCheckSpan(part, open) == TableCheckLoop(part, open, open, 0)

RECURSIVE SplitLoop_SplitsEveryComma(_, _, _, _, _)
\* the depth left out of the test of the comma
SplitLoop_SplitsEveryComma(body, k, current, paren_depth, parts) ==
    IF k > Len(body)
    THEN (IF Strip(current) # "" THEN Append(parts, Strip(current)) ELSE parts)
    ELSE IF Ch(body, k) = ","
    THEN SplitLoop_SplitsEveryComma(body, k + 1, "", paren_depth, Append(parts, Strip(current)))
    ELSE SplitLoop_SplitsEveryComma(body, k + 1, current \o Ch(body, k), paren_depth, parts)

RECURSIVE SplitLoop(_, _, _, _, _)
\* _split_table_definition: for char in table_def, and the last part after
\* the loop, kept if it is not blank
SplitLoop(body, k, current, paren_depth, parts) ==
    IF k > Len(body)
    THEN (IF Strip(current) # "" THEN Append(parts, Strip(current)) ELSE parts)
    ELSE IF Ch(body, k) = "," /\ paren_depth = 0
    THEN SplitLoop(body, k + 1, "", paren_depth, Append(parts, Strip(current)))
    ELSE SplitLoop(body, k + 1, current \o Ch(body, k),
                   DepthStep(Ch(body, k), paren_depth), parts)

(***************************************************************************)
(* SchemaParser._extract_column_check_constraints                          *)
(***************************************************************************)
\* r"CHECK\s*\(" under re.IGNORECASE
CheckOpenRe == RCat(<<RLitI("CHECK"), RSo, RLit("(")>>)

\* the span from start_pos to the closing parenthesis, kept if the scan closed
ColumnCheckAt(frag, start_pos, sc) ==
    IF sc.paren_depth = 0 THEN <<Strip(SubSeq(frag, start_pos, sc.i - 2))>> ELSE <<>>

\* start_pos = match.end(); paren_depth = 1; the scan from there
ColumnCheckOf(frag, match) == ColumnCheckAt(frag, match.e, ScanParens(frag, match.e, 1))

RECURSIVE ColumnChecksOf(_, _)
\* for match in matches
ColumnChecksOf(frag, matches) ==
    IF matches = <<>> THEN <<>>
    ELSE ColumnCheckOf(frag, Head(matches)) \o ColumnChecksOf(frag, Tail(matches))

_extract_column_check_constraints(frag) == ColumnChecksOf(frag, FindIter(CheckOpenRe, frag))

(***************************************************************************)
(* SchemaParser._parse_columns                                             *)
(***************************************************************************)
\* Optional[str]: None, or a string
None == <<>>
Some(s) == <<s>>

ConstraintPrefixes == {"CONSTRAINT", "PRIMARY KEY", "FOREIGN KEY", "UNIQUE", "CHECK"}

\* r"^(\w+)"
NameRe == RCat(<<RBol, RGrp(1, RWs)>>)
\* r"^(\w+\s+WITH\s+TIME\s+ZONE)"
TypeWithTimeZoneRe ==
    RCat(<<RBol, RGrp(1, RCat(<<RWs, RSs, RLitI("WITH"), RSs, RLitI("TIME"), RSs, RLitI("ZONE")>>))>>)
\* r"^(\w+\s*\(\s*\d+(?:\s*,\s*\d+)?\s*\))"
TypeWithPrecisionRe ==
    RCat(<<RBol, RGrp(1, RCat(<<RWs, RSo, RLit("("), RSo, RDs,
                                ROpt(RCat(<<RSo, RLit(","), RSo, RDs>>)),
                                RSo, RLit(")")>>))>>)
\* r"^(\w+)"
TypeSimpleRe == RCat(<<RBol, RGrp(1, RWs)>>)

\* sorted(type_patterns, key=lambda x: x[1], reverse=True): weights 20, 15, 5
TypePatterns == <<TypeWithTimeZoneRe, TypeWithPrecisionRe, TypeSimpleRe>>

RECURSIVE FirstType(_, _)
RECURSIVE TypeOr(_, _, _)
\* for pattern, _ in type_patterns: the first that matches gives the type
FirstType(rest, patterns) ==
    IF patterns = <<>> THEN "unknown"
    ELSE TypeOr(rest, patterns, ReMatch(Head(patterns), rest))

TypeOr(rest, patterns, type_match) ==
    IF type_match.ok THEN Strip(Group(rest, type_match, 1))
    ELSE FirstType(rest, Tail(patterns))

\* r"DEFAULT\s+((?:(?:[^,\s]+|\([^)]*\))(?:\s|,|$))*)" under re.IGNORECASE
DefaultRe ==
    RCat(<<RLitI("DEFAULT"), RSs,
           RGrp(1, RStar(RCat(<<RAlt(<<RPlusOf(RNot({","} \cup SpaceCh)),
                                      RCat(<<RLit("("), RStarOf(RNot({")"})), RLit(")")>>)>>),
                                RAlt(<<RS, RLit(","), REol>>)>>)))>>)
\* r"\s+(?:NOT\s+NULL|UNIQUE|CHECK|PRIMARY|FOREIGN|CONSTRAINT).*$" under re.IGNORECASE
TrailingKeywordRe ==
    RCat(<<RSs,
           RAlt(<<RCat(<<RLitI("NOT"), RSs, RLitI("NULL")>>), RLitI("UNIQUE"), RLitI("CHECK"),
                  RLitI("PRIMARY"), RLitI("FOREIGN"), RLitI("CONSTRAINT")>>),
           RStarOf(RNot({"\n"})), REol>>)

\* if len(default_value) > 50: default_value = default_value[:47] + "..."
DefaultMaxLen == 50
DefaultKeepLen == 47

\* the cut made after 50 characters instead of 47
TruncateDefault_KeepsTooMany(default_value) ==
    IF Len(default_value) > DefaultMaxLen
    THEN SubSeq(default_value, 1, DefaultMaxLen) \o "..."
    ELSE default_value

TruncateDefault(default_value) ==
    IF Len(default_value) > DefaultMaxLen
    THEN SubSeq(default_value, 1, DefaultKeepLen) \o "..."
    ELSE default_value

\* default_str = re.sub(<trailing keyword>, "", default_match.group(1).strip())
\* default_str = default_str.strip().rstrip(","); .strip("'\"")
DefaultText(captured) ==
    StripChars(RStripSet(Strip(ReSub(TrailingKeywordRe, "", Strip(captured))), {","}),
               {"'", "\""})

DefaultFrom(frag, default_match) ==
    IF default_match.ok
    THEN Some(TruncateDefault(DefaultText(Group(frag, default_match, 1))))
    ELSE None

DefaultValueOf(frag) == DefaultFrom(frag, ReSearch(DefaultRe, frag))

IsNullable(frag) == ~Contains(Upper(frag), "NOT NULL")
IsUnique(frag) == Contains(Upper(frag), "UNIQUE")

\* rest = col_def[len(col_name):].strip()
RestOf(frag, col_name) == Strip(SubSeq(frag, Len(col_name) + 1, Len(frag)))

ColumnNamed(frag, col_name) ==
    [name |-> col_name,
     data_type |-> FirstType(RestOf(frag, col_name), TypePatterns),
     is_nullable |-> IsNullable(frag),
     default_value |-> DefaultValueOf(frag),
     is_primary_key |-> FALSE,
     is_unique |-> IsUnique(frag),
     check_constraints |-> _extract_column_check_constraints(frag)]

\* the Column built from one fragment that passed the two `continue` tests
ColumnOf(frag) == ColumnNamed(frag, Group(frag, ReMatch(NameRe, frag), 1))

\* if not col_def or col_def.upper().startswith((...)): continue
IsSkippedFragment(frag) ==
    frag = "" \/ \E p \in ConstraintPrefixes : StartsWith(Upper(frag), p)

\* one pass of `for col_def in column_defs`, col_def stripped
ColumnFrom(frag) ==
    IF IsSkippedFragment(frag) \/ ~ReMatch(NameRe, frag).ok THEN <<>> ELSE <<ColumnOf(frag)>>

RECURSIVE ColumnsOf(_)
ColumnsOf(column_defs) ==
    IF column_defs = <<>> THEN <<>>
    ELSE ColumnFrom(Strip(Head(column_defs))) \o ColumnsOf(Tail(column_defs))

_parse_columns(body) == ColumnsOf(_split_table_definition(body))

(***************************************************************************)
(* SchemaParser._extract_primary_key                                       *)
(***************************************************************************)
\* r"(\w+)\s+\w+.*?\bPRIMARY\s+KEY\b" under re.IGNORECASE
PkInlineRe ==
    RCat(<<RGrp(1, RWs), RSs, RWs, RLazyOf(RNot({"\n"})), RWb,
           RLitI("PRIMARY"), RSs, RLitI("KEY"), RWb>>)
\* r"(?:CONSTRAINT\s+\w+\s+)?PRIMARY\s+KEY\s*\(\s*([^)]+)\s*\)" under re.IGNORECASE
PkConstraintRe ==
    RCat(<<ROpt(RCat(<<RLitI("CONSTRAINT"), RSs, RWs, RSs>>)),
           RLitI("PRIMARY"), RSs, RLitI("KEY"), RSo, RLit("("), RSo,
           RGrp(1, RPlusOf(RNot({")"}))), RSo, RLit(")")>>)

\* [col.strip().strip('"') for col in cols_str.split(",")]
UnquoteAll(pieces) == [i \in 1..Len(pieces) |-> StripChars(Strip(pieces[i]), {"\""})]

ColumnList(cols_str) == UnquoteAll(SplitComma(cols_str))

\* [m.group(1) for m in finditer(pk_inline_pattern)]
InlineKeys(body, found) == [i \in 1..Len(found) |-> Group(body, found[i], 1)]

ConstraintKey(body, pk_match) ==
    IF pk_match.ok THEN ColumnList(Group(body, pk_match, 1)) ELSE <<>>

KeyFrom(body, pk_inline) ==
    IF pk_inline # <<>> THEN pk_inline
    ELSE ConstraintKey(body, ReSearch(PkConstraintRe, body))

\* Both patterns hold the literal PRIMARY: a text without it has no match.
_extract_primary_key(body) ==
    IF \E p \in 1..Len(body) : LitAt(body, p, RLitI("PRIMARY"))
    THEN KeyFrom(body, InlineKeys(body, FindIter(PkInlineRe, body)))
    ELSE <<>>

(***************************************************************************)
(* SchemaParser._parse_table_foreign_keys                                  *)
(***************************************************************************)
\* the schema is written whatever it is
FullName_KeepsPublic(schema, table_name) == schema \o "." \o table_name

\* f"{schema}.{table_name}" if schema != "public" else table_name
FullName(schema, table_name) ==
    IF schema # "public" THEN schema \o "." \o table_name ELSE table_name

\* match.group(n) or "public"
SchemaOr(text, m, n) == IF Group(text, m, n) # "" THEN Group(text, m, n) ELSE "public"

\* r"FOREIGN\s+KEY\s*\(\s*([^)]+)\s*\)\s*REFERENCES\s+(?:(\w+)\.)?(\w+)\s*\(\s*([^)]+)\s*\)"
\* with its groups numbered from n + 1
ForeignKeyClause(n) ==
    <<RLitI("FOREIGN"), RSs, RLitI("KEY"), RSo, RLit("("), RSo,
      RGrp(n + 1, RPlusOf(RNot({")"}))), RSo, RLit(")"), RSo,
      RLitI("REFERENCES"), RSs, ROpt(RCat(<<RGrp(n + 2, RWs), RLit(".")>>)),
      RGrp(n + 3, RWs), RSo, RLit("("), RSo,
      RGrp(n + 4, RPlusOf(RNot({")"}))), RSo, RLit(")")>>

\* fk_pattern: r"(?:CONSTRAINT\s+(\w+)\s+)?" and the clause, under re.IGNORECASE
TableFkRe ==
    RCat(<<ROpt(RCat(<<RLitI("CONSTRAINT"), RSs, RGrp(1, RWs), RSs>>))>> \o ForeignKeyClause(1))

\* the ForeignKey of one match of fk_pattern
TableForeignKeyOf(body, full_table_name, m) ==
    [from_table |-> full_table_name,
     from_columns |-> ColumnList(Group(body, m, 2)),
     to_table |-> FullName(SchemaOr(body, m, 3), Group(body, m, 4)),
     to_columns |-> ColumnList(Group(body, m, 5)),
     constraint_name |-> IF Group(body, m, 1) # "" THEN Group(body, m, 1) ELSE "unnamed"]

TableForeignKeysOf(body, full_table_name, matches) ==
    [k \in 1..Len(matches) |-> TableForeignKeyOf(body, full_table_name, matches[k])]

_parse_table_foreign_keys(body, table_name, schema) ==
    TableForeignKeysOf(body, FullName(schema, table_name), FindIter(TableFkRe, body))

(***************************************************************************)
(* SchemaParser._parse_table_check_constraints                             *)
(***************************************************************************)
\* r"^(?:CONSTRAINT\s+(\w+)\s+)?CHECK\s*\(" under re.IGNORECASE
TableCheckRe ==
    RCat(<<RBol, ROpt(RCat(<<RLitI("CONSTRAINT"), RSs, RGrp(1, RWs), RSs>>)),
           RLitI("CHECK"), RSo, RLit("(")>>)

\* match.group(n), None when the group took no part
OptGroup(text, m, n) == IF HasGroup(m, n) THEN Some(Group(text, m, n)) ELSE None

\* The loop from expression_start, depth 0 at the opening parenthesis: the
\* constraint is kept when a closing parenthesis brings the depth back to 0.
ClosesAt(part, expression_start) ==
    {i \in expression_start..Len(part) : DepthAfter(part, expression_start, i, 0) = 0}

TableCheckAt(part, check_match, expression_start, closes) ==
    IF closes = {} THEN <<>>
    ELSE <<[name |-> OptGroup(part, check_match, 1),
            expression |-> Strip(SubSeq(part, expression_start + 1, Least(closes) - 1))]>>

TableCheckFrom(part, check_match) ==
    IF check_match.ok
    THEN TableCheckAt(part, check_match, check_match.e - 1, ClosesAt(part, check_match.e - 1))
    ELSE <<>>

TableCheckOf(part) == TableCheckFrom(part, ReMatch(TableCheckRe, part))

RECURSIVE TableChecksOf(_)
TableChecksOf(parts) ==
    IF parts = <<>> THEN <<>>
    ELSE (IF Strip(Head(parts)) = "" THEN <<>> ELSE TableCheckOf(Strip(Head(parts))))
         \o TableChecksOf(Tail(parts))

_parse_table_check_constraints(body) == TableChecksOf(_split_table_definition(body))

(***************************************************************************)
(* SchemaParser._parse_tables                                              *)
(* The registry self.tables is the list of its Tables in insertion order,  *)
(* one per key; the key of a Table is FullName(schema, name).              *)
(***************************************************************************)
KeyOf(table) == FullName(table.schema, table.name)
Keys(registry) == {KeyOf(registry[k]) : k \in 1..Len(registry)}
IndexOfKey(registry, key) == CHOOSE k \in 1..Len(registry) : KeyOf(registry[k]) = key
Lookup(registry, key) == registry[IndexOfKey(registry, key)]

\* self.tables[full_name] = table
Store(registry, table) ==
    IF KeyOf(table) \in Keys(registry)
    THEN [registry EXCEPT ![IndexOfKey(registry, KeyOf(table))] = table]
    ELSE Append(registry, table)

\* r"CREATE\s+TABLE\s+(?:IF\s+NOT\s+EXISTS\s+)?(?:(\w+)\.)?(\w+)\s*\(" under re.IGNORECASE
CreateTableRe ==
    RCat(<<RLitI("CREATE"), RSs, RLitI("TABLE"), RSs,
           ROpt(RCat(<<RLitI("IF"), RSs, RLitI("NOT"), RSs, RLitI("EXISTS"), RSs>>)),
           ROpt(RCat(<<RGrp(1, RWs), RLit(".")>>)), RGrp(2, RWs), RSo, RLit("(")>>)

\* Table(name=table_name, schema=schema) with the four fields _parse_tables sets
TableOf(table_name, schema, body) ==
    [name |-> table_name,
     schema |-> schema,
     columns |-> _parse_columns(body),
     primary_key_columns |-> _extract_primary_key(body),
     foreign_keys |-> _parse_table_foreign_keys(body, table_name, schema),
     check_constraints |-> _parse_table_check_constraints(body),
     indexes |-> <<>>,
     comment |-> None]

\* self.tables[full_name] = table; self.relationships.extend(table.foreign_keys)
Register(st, table) ==
    [tables |-> Store(st.tables, table),
     relationships |-> st.relationships \o table.foreign_keys]

\* the Table stored whatever depth the scan ended with
AfterScan_IgnoresDepth(sql, st, create_match, sc) ==
    Register(st, TableOf(Group(sql, create_match, 2), SchemaOr(sql, create_match, 1),
                         SubSeq(sql, create_match.e, sc.i - 2)))

\* if paren_depth == 0: the body is sql[start_pos:i - 1] and the Table is stored
AfterScan(sql, st, create_match, sc) ==
    IF sc.paren_depth = 0
    THEN Register(st, TableOf(Group(sql, create_match, 2), SchemaOr(sql, create_match, 1),
                              SubSeq(sql, create_match.e, sc.i - 2)))
    ELSE st

RECURSIVE ParseTablesFrom(_, _, _)
RECURSIVE AfterCreate(_, _, _)
RECURSIVE ParseTablesOn(_, _, _, _)

\* while i < len(sql): create_match = pattern.search(sql, i); if not: break
\* st is [tables, relationships]
ParseTablesFrom(sql, i, st) ==
    IF i > Len(sql) THEN st ELSE AfterCreate(sql, st, SearchFrom(CreateTableRe, sql, i))

\* start_pos = create_match.end(); paren_depth = 1; the scan from there
AfterCreate(sql, st, create_match) ==
    IF ~create_match.ok THEN st
    ELSE ParseTablesOn(sql, st, create_match, ScanParens(sql, create_match.e, 1))

\* i = j
ParseTablesOn(sql, st, create_match, sc) ==
    ParseTablesFrom(sql, sc.i, AfterScan(sql, st, create_match, sc))

_parse_tables(sql, st) == ParseTablesFrom(sql, 1, st)

(***************************************************************************)
(* SchemaParser._parse_alter_table_foreign_keys                            *)
(***************************************************************************)
\* r"ALTER\s+TABLE\s+(?:ONLY\s+)?(?:(\w+)\.)?(\w+)\s+(?:IF\s+EXISTS\s+)?"
AlterTableRe ==
    RCat(<<RLitI("ALTER"), RSs, RLitI("TABLE"), RSs, ROpt(RCat(<<RLitI("ONLY"), RSs>>)),
           ROpt(RCat(<<RGrp(1, RWs), RLit(".")>>)), RGrp(2, RWs), RSs,
           ROpt(RCat(<<RLitI("IF"), RSs, RLitI("EXISTS"), RSs>>))>>)
\* r"ADD\s+CONSTRAINT\s+(\w+)\s+"
AddConstraintRe == RCat(<<RLitI("ADD"), RSs, RLitI("CONSTRAINT"), RSs, RGrp(1, RWs), RSs>>)
\* the clause and r"(?:\s+ON\s+DELETE\s+\w+)?"
AlterFkRe ==
    RCat(ForeignKeyClause(0)
         \o <<ROpt(RCat(<<RSs, RLitI("ON"), RSs, RLitI("DELETE"), RSs, RWs>>))>>)

\* sql[alter_start:alter_start + 2000] and sql[constraint_start:constraint_start + 1000]
AddConstraintWindow == 2000
ForeignKeyWindow == 1000

\* the text from start to its end, whatever the size
Window_TakesTheRest(sql, start, size) == SubSeq(sql, start, Len(sql))

\* sql[start:start + size], start a position from 1
Window(sql, start, size) ==
    SubSeq(sql, start, IF start + size - 1 > Len(sql) THEN Len(sql) ELSE start + size - 1)

\* tables[key].foreign_keys.append(fk), .check_constraints.append(c), ...
AppendTo(registry, key, fld, x) ==
    [registry EXCEPT ![IndexOfKey(registry, key)] =
        [@ EXCEPT ![fld] = Append(@, x)]]

\* the table an ALTER TABLE, CREATE INDEX or COMMENT match names, its
\* schema in group n and its name in group n + 1
TargetOf(sql, match, n) == FullName(SchemaOr(sql, match, n), Group(sql, match, n + 1))

AlterForeignKeyOf(full_table_name, constraint_name, fk_search_window, fk_match) ==
    [from_table |-> full_table_name,
     from_columns |-> ColumnList(Group(fk_search_window, fk_match, 1)),
     to_table |-> FullName(SchemaOr(fk_search_window, fk_match, 2),
                           Group(fk_search_window, fk_match, 3)),
     to_columns |-> ColumnList(Group(fk_search_window, fk_match, 4)),
     constraint_name |-> constraint_name]

\* self.tables[full_table_name].foreign_keys.append(fk); self.relationships.append(fk)
AddForeignKey(st, fk) ==
    [tables |-> AppendTo(st.tables, fk.from_table, "foreign_keys", fk),
     relationships |-> Append(st.relationships, fk)]

\* if not fk_match: continue; if full_table_name in self.tables: ...
AfterForeignKey(st, full_table_name, constraint_name, fk_search_window, fk_match) ==
    IF fk_match.ok /\ full_table_name \in Keys(st.tables)
    THEN AddForeignKey(st, AlterForeignKeyOf(full_table_name, constraint_name,
                                             fk_search_window, fk_match))
    ELSE st

\* fk_search_window = sql[constraint_start:constraint_start + 1000]
InForeignKeyWindow(st, full_table_name, constraint_name, fk_search_window) ==
    AfterForeignKey(st, full_table_name, constraint_name, fk_search_window,
                    ReSearch(AlterFkRe, fk_search_window))

\* if not add_constraint_match: continue
\* constraint_start = alter_start + add_constraint_match.end()
AfterAddConstraint(sql, st, alter_match, search_window, add_constraint_match) ==
    IF ~add_constraint_match.ok THEN st
    ELSE InForeignKeyWindow(st, TargetOf(sql, alter_match, 1),
                            Group(search_window, add_constraint_match, 1),
                            Window(sql, alter_match.e + add_constraint_match.e - 1,
                                   ForeignKeyWindow))

\* search_window = sql[alter_start:alter_start + 2000]
InAddConstraintWindow(sql, st, alter_match, search_window) ==
    AfterAddConstraint(sql, st, alter_match, search_window,
                       ReSearch(AddConstraintRe, search_window))

\* one pass of `for alter_match in alter_matches`; alter_start = alter_match.end()
AlterForeignKeyStep(sql, alter_match, st) ==
    InAddConstraintWindow(sql, st, alter_match,
                          Window(sql, alter_match.e, AddConstraintWindow))

RECURSIVE AlterForeignKeysOf(_, _, _)
AlterForeignKeysOf(sql, alter_matches, st) ==
    IF alter_matches = <<>> THEN st
    ELSE AlterForeignKeysOf(sql, Tail(alter_matches),
                            AlterForeignKeyStep(sql, Head(alter_matches), st))

_parse_alter_table_foreign_keys(sql, st) ==
    AlterForeignKeysOf(sql, FindIter(AlterTableRe, sql), st)

(***************************************************************************)
(* SchemaParser._parse_alter_table_check_constraints                       *)
(***************************************************************************)
\* r"ALTER\s+TABLE\s+(?:(\w+)\.)?(\w+)\s+ADD\s+(?:CONSTRAINT\s+(\w+)\s+)?CHECK\s*\("
AlterCheckRe ==
    RCat(<<RLitI("ALTER"), RSs, RLitI("TABLE"), RSs,
           ROpt(RCat(<<RGrp(1, RWs), RLit(".")>>)), RGrp(2, RWs), RSs,
           RLitI("ADD"), RSs, ROpt(RCat(<<RLitI("CONSTRAINT"), RSs, RGrp(3, RWs), RSs>>)),
           RLitI("CHECK"), RSo, RLit("(")>>)

\* if paren_depth == 0: ...; if full_table_name in self.tables: append
AlterCheckAt(sql, match, registry, full_table_name, sc) ==
    IF sc.paren_depth = 0 /\ full_table_name \in Keys(registry)
    THEN AppendTo(registry, full_table_name, "check_constraints",
                  [name |-> OptGroup(sql, match, 3),
                   expression |-> Strip(SubSeq(sql, match.e, sc.i - 2))])
    ELSE registry

\* start_pos = match.end(); paren_depth = 1; the scan from there
AlterCheckStep(sql, match, registry) ==
    AlterCheckAt(sql, match, registry, TargetOf(sql, match, 1), ScanParens(sql, match.e, 1))

RECURSIVE AlterChecksOf(_, _, _)
AlterChecksOf(sql, matches, registry) ==
    IF matches = <<>> THEN registry
    ELSE AlterChecksOf(sql, Tail(matches), AlterCheckStep(sql, Head(matches), registry))

_parse_alter_table_check_constraints(sql, registry) ==
    AlterChecksOf(sql, FindIter(AlterCheckRe, sql), registry)

(***************************************************************************)
(* SchemaParser._parse_indexes                                             *)
(***************************************************************************)
\* r"CREATE\s+(?:UNIQUE\s+)?INDEX\s+(?:CONCURRENTLY\s+)?(?:\w+\.)?(\w+)\s+"
\* r"ON\s+(?:ONLY\s+)?(?:(\w+)\.)?(\w+)\s+"
IndexHead ==
    <<RLitI("CREATE"), RSs, ROpt(RCat(<<RLitI("UNIQUE"), RSs>>)), RLitI("INDEX"), RSs,
      ROpt(RCat(<<RLitI("CONCURRENTLY"), RSs>>)), ROpt(RCat(<<RWs, RLit(".")>>)),
      RGrp(1, RWs), RSs, RLitI("ON"), RSs, ROpt(RCat(<<RLitI("ONLY"), RSs>>)),
      ROpt(RCat(<<RGrp(2, RWs), RLit(".")>>)), RGrp(3, RWs), RSs>>
\* index_pattern1: the head, r"(?:USING\s+(\w+)\s+)?" and r"\("
IndexRe1 ==
    RCat(IndexHead \o <<ROpt(RCat(<<RLitI("USING"), RSs, RGrp(4, RWs), RSs>>)), RLit("(")>>)
\* the method may stand apart from the parenthesis
IndexRe2_AllowsSpace == RCat(IndexHead \o <<RLitI("USING"), RSs, RGrp(4, RWs), RSo, RLit("(")>>)

\* index_pattern2: the head and r"USING\s+(\w+)\("
IndexRe2 == RCat(IndexHead \o <<RLitI("USING"), RSs, RGrp(4, RWs), RLit("(")>>)
\* r"^\s*USING\s+(\w+)"
UsingAfterRe == RCat(<<RBol, RSo, RLitI("USING"), RSs, RGrp(1, RWs)>>)

\* remaining = sql[i:i+200].strip()
UsingLookahead == 200

\* f"{index_name} ({index_columns})" and f" USING {using_clause}" if there is one
IndexDesc(sql, match, sc, using_clause) ==
    Group(sql, match, 1) \o " (" \o Strip(SubSeq(sql, match.e, sc.i - 2)) \o ")"
    \o (IF using_clause # "" THEN " USING " \o using_clause ELSE "")

UsingAfter(remaining, using_match) ==
    IF using_match.ok THEN Group(remaining, using_match, 1) ELSE ""

\* using_clause = match.group(4); if not using_clause: look after the parenthesis
UsingClause1(sql, match, remaining) ==
    IF Group(sql, match, 4) # "" THEN Group(sql, match, 4)
    ELSE UsingAfter(remaining, ReMatch(UsingAfterRe, remaining))

\* if paren_depth == 0: ...; if full_table_name in self.tables: append
IndexAt(sql, match, registry, full_table_name, sc, using_clause) ==
    IF sc.paren_depth = 0 /\ full_table_name \in Keys(registry)
    THEN AppendTo(registry, full_table_name, "indexes", IndexDesc(sql, match, sc, using_clause))
    ELSE registry

IndexAfterScan1(sql, match, registry, sc) ==
    IndexAt(sql, match, registry, TargetOf(sql, match, 2), sc,
            UsingClause1(sql, match, Strip(Window(sql, sc.i, UsingLookahead))))

\* one pass of `for match in matches1`
IndexStep1(sql, match, registry) ==
    IndexAfterScan1(sql, match, registry, ScanParens(sql, match.e, 1))

\* one pass of `for match in matches2`: using_clause = match.group(4)
IndexStep2(sql, match, registry) ==
    IndexAt(sql, match, registry, TargetOf(sql, match, 2), ScanParens(sql, match.e, 1),
            Group(sql, match, 4))

RECURSIVE IndexesOf1(_, _, _)
IndexesOf1(sql, matches, registry) ==
    IF matches = <<>> THEN registry
    ELSE IndexesOf1(sql, Tail(matches), IndexStep1(sql, Head(matches), registry))

RECURSIVE IndexesOf2(_, _, _)
IndexesOf2(sql, matches, registry) ==
    IF matches = <<>> THEN registry
    ELSE IndexesOf2(sql, Tail(matches), IndexStep2(sql, Head(matches), registry))

_parse_indexes(sql, registry) ==
    IndexesOf2(sql, FindIter(IndexRe2, sql),
               IndexesOf1(sql, FindIter(IndexRe1, sql), registry))

(***************************************************************************)
(* SchemaParser._parse_table_comments                                      *)
(***************************************************************************)
\* r"COMMENT\s+ON\s+TABLE\s+(?:(\w+)\.)?(\w+)\s+IS\s+'([^']+)'" under re.IGNORECASE
CommentRe ==
    RCat(<<RLitI("COMMENT"), RSs, RLitI("ON"), RSs, RLitI("TABLE"), RSs,
           ROpt(RCat(<<RGrp(1, RWs), RLit(".")>>)), RGrp(2, RWs), RSs, RLitI("IS"), RSs,
           RLit("'"), RGrp(3, RPlusOf(RNot({"'"}))), RLit("'")>>)

\* if full_table_name in self.tables: self.tables[full_table_name].comment = comment
SetComment(registry, full_table_name, comment) ==
    IF full_table_name \in Keys(registry)
    THEN [registry EXCEPT ![IndexOfKey(registry, full_table_name)] =
             [@ EXCEPT !.comment = Some(comment)]]
    ELSE registry

CommentStep(sql, match, registry) ==
    SetComment(registry, TargetOf(sql, match, 1), Group(sql, match, 3))

RECURSIVE CommentsOf(_, _, _)
CommentsOf(sql, matches, registry) ==
    IF matches = <<>> THEN registry
    ELSE CommentsOf(sql, Tail(matches), CommentStep(sql, Head(matches), registry))

_parse_table_comments(sql, registry) == CommentsOf(sql, FindIter(CommentRe, sql), registry)

(***************************************************************************)
(* SchemaParser.parse: the five passes over the normalized text, in the    *)
(* order of the source.  The result is [tables, relationships].            *)
(***************************************************************************)
Empty == [tables |-> <<>>, relationships |-> <<>>]

\* the three passes that add to the Tables, after the two that add foreign keys
WithForeignKeys(sql, st) ==
    [tables |-> _parse_table_comments(sql,
                    _parse_indexes(sql, _parse_alter_table_check_constraints(sql, st.tables))),
     relationships |-> st.relationships]

\* an empty text holds no statement for any of the passes
ParseNormalized(sql) ==
    IF sql = "" THEN Empty
    ELSE WithForeignKeys(sql, _parse_alter_table_foreign_keys(sql, _parse_tables(sql, Empty)))

parse(content) == ParseNormalized(_normalize_sql(content))

(***************************************************************************)
(* sorted(...) over names: Python orders strings by code point.            *)
(***************************************************************************)
\* the characters of table names, in code point order
Alphabet == "." \o DigitChars \o UpperLetters \o "_" \o LowerLetters
Code(c) == CHOOSE k \in 1..Len(Alphabet) : Ch(Alphabet, k) = c

\* a < b as Python compares strings
StrLess(a, b) ==
    \E i \in 1..(Len(b)) :
        /\ \A k \in 1..(i - 1) : k <= Len(a) /\ Ch(a, k) = Ch(b, k)
        /\ \/ i = Len(a) + 1
           \/ i <= Len(a) /\ Code(Ch(a, i)) < Code(Ch(b, i))

\* sorted(names): the names of a set in ascending order
SortedNames(names) ==
    LET n == Cardinality(names)
    IN [i \in 1..n |->
           CHOOSE x \in names : Cardinality({y \in names : StrLess(y, x)}) = i - 1]

\* sorted(children, key=lambda x: x[0]): stable, children of one name keep
\* their order
Rank(xs, i) ==
    1 + Cardinality({j \in 1..Len(xs) :
                        \/ StrLess(xs[j].child_table, xs[i].child_table)
                        \/ (xs[j].child_table = xs[i].child_table /\ j < i)})

StableSort(xs) ==
    [r \in 1..Len(xs) |-> xs[CHOOSE i \in 1..Len(xs) : Rank(xs, i) = r]]

(***************************************************************************)
(* _build_relationship_tree                                                *)
(* The tree is the list of its entries [parent, children] in insertion     *)
(* order; children are the (child_table, fk_info) pairs in append order.   *)
(***************************************************************************)
TreeKeys(tr) == {tr[k].parent : k \in 1..Len(tr)}
ChildrenOf(tr, parent) ==
    IF parent \in TreeKeys(tr)
    THEN tr[CHOOSE k \in 1..Len(tr) : tr[k].parent = parent].children
    ELSE <<>>

\* if parent_table not in tree: tree[parent_table] = []
\* tree[parent_table].append((child_table, fk_info))
\* the edge with the two column lists exchanged
EdgeOf_SwapsColumns(fk) ==
    [child_table |-> fk.from_table,
     from_cols |-> fk.to_columns,
     to_cols |-> fk.from_columns,
     constraint |-> fk.constraint_name]

EdgeOf(fk) ==
    [child_table |-> fk.from_table,
     from_cols |-> fk.from_columns,
     to_cols |-> fk.to_columns,
     constraint |-> fk.constraint_name]

\* an edge the tree already holds under the parent is not added again
AddEdge_DropsDuplicates(tr, fk) ==
    IF fk.to_table \in TreeKeys(tr)
    THEN [tr EXCEPT ![CHOOSE k \in 1..Len(tr) : tr[k].parent = fk.to_table] =
             [@ EXCEPT !.children =
                 IF \E c \in 1..Len(@) : @[c] = EdgeOf(fk) THEN @ ELSE Append(@, EdgeOf(fk))]]
    ELSE Append(tr, [parent |-> fk.to_table, children |-> <<EdgeOf(fk)>>])

\* if parent_table not in tree: tree[parent_table] = []; then the append
AddEdge(tr, fk) ==
    IF fk.to_table \in TreeKeys(tr)
    THEN [tr EXCEPT ![CHOOSE k \in 1..Len(tr) : tr[k].parent = fk.to_table] =
             [@ EXCEPT !.children = Append(@, EdgeOf(fk))]]
    ELSE Append(tr, [parent |-> fk.to_table, children |-> <<EdgeOf(fk)>>])

RECURSIVE AddEdges(_, _)
AddEdges(tr, fks) == IF fks = <<>> THEN tr ELSE AddEdges(AddEdge(tr, Head(fks)), Tail(fks))

RECURSIVE TreeFrom(_, _, _)
\* for table_name, table in tables.items(): for fk in table.foreign_keys
TreeFrom(registry, k, tr) ==
    IF k > Len(registry) THEN tr
    ELSE TreeFrom(registry, k + 1, AddEdges(tr, registry[k].foreign_keys))

_build_relationship_tree(registry) == TreeFrom(registry, 1, <<>>)

(***************************************************************************)
(* _generate_ascii_relationship_diagram                                    *)
(* The box-drawing characters and the arrow of the source are written in   *)
(* ASCII: U+2502 as "|", U+251C U+2500 U+2500 as "|--", U+2514 U+2500      *)
(* U+2500 as "+--", U+2192 as "->".  No table or column name holds them.   *)
(***************************************************************************)
Vertical == "|"
BranchConnector == "|-- "
LastBranchConnector == "+-- "
Arrow == "->"
Indent == "    "
SeeAbove == "... (see above)"
NoRelationships == "No relationships defined."
StandaloneHeader == "Standalone tables (no relationships):"

\* a self reference counted as being a child
IsChildElsewhere_CountsSelf(tr, parent_table) ==
    \E k \in 1..Len(tr) :
        \E c \in 1..Len(tr[k].children) : tr[k].children[c].child_table = parent_table

\* all_child_tables, restricted as the loop over tree.items() restricts it:
\* parent_table is a child under some other parent
IsChildElsewhere(tr, parent_table) ==
    \E k \in 1..Len(tr) :
        /\ tr[k].parent # parent_table
        /\ \E c \in 1..Len(tr[k].children) : tr[k].children[c].child_table = parent_table

\* if not root_tables: root_tables = sorted(tree.keys())
ClearOr(keys, clear) == IF clear = <<>> THEN keys ELSE clear

ClearAmong(tr, keys) ==
    ClearOr(keys, SelectSeq(keys, LAMBDA parent_table : ~IsChildElsewhere(tr, parent_table)))

\* root_tables, with the fall-back to every parent when none is clear
RootTables(tr) == ClearAmong(tr, SortedNames(TreeKeys(tr)))

\* draw_branch_connector(is_last, prefix)
draw_branch_connector(is_last, prefix) ==
    IF is_last THEN prefix \o LastBranchConnector ELSE prefix \o BranchConnector

\* connector_prefix of the source
ConnectorPrefix(prefix, is_last, show_table_name) ==
    IF is_last /\ ~show_table_name THEN prefix
    ELSE IF is_last THEN prefix \o Indent
    ELSE prefix \o Vertical \o "   "

\* new_prefix of the source
NewPrefix(prefix, is_last_child) ==
    IF is_last_child THEN prefix \o Indent ELSE prefix \o Vertical \o "   "

\* f"{connector}{child_table} ({from_cols} -> {to_cols})"
BranchLine(edge, is_last_child, connector_prefix) ==
    draw_branch_connector(is_last_child, connector_prefix)
    \o edge.child_table \o " (" \o JoinWith(edge.from_cols, ", ")
    \o " " \o Arrow \o " " \o JoinWith(edge.to_cols, ", ") \o ")"

RECURSIVE draw_relationships(_, _, _, _, _, _, _, _)
RECURSIVE Under(_, _, _, _, _, _, _, _)
RECURSIVE DrawChildren(_, _, _, _, _, _, _, _, _, _)

\* a self reference treated as any other child
Under_RecursesIntoSelf(registry, tr, parent, child_table, visited, new_prefix, is_last_child, depth) ==
    IF ChildrenOf(tr, child_table) # <<>>
    THEN <<new_prefix \o child_table>>
         \o draw_relationships(registry, tr, child_table, visited, new_prefix,
                               is_last_child, depth + 1, FALSE)
    ELSE <<>>

\* the lines under a branch: the note of a self reference, or the child and
\* its own children when it has some
Under(registry, tr, parent, child_table, visited, new_prefix, is_last_child, depth) ==
    IF child_table = parent THEN <<new_prefix \o SeeAbove>>
    ELSE IF ChildrenOf(tr, child_table) # <<>>
    THEN <<new_prefix \o child_table>>
         \o draw_relationships(registry, tr, child_table, visited, new_prefix,
                               is_last_child, depth + 1, FALSE)
    ELSE <<>>

\* one pass of `for idx, (child_table, fk_info) in enumerate(children)`, and
\* the passes after it; idx counts from 1
DrawChildren(registry, tr, parent, children, idx, visited, prefix, is_last, depth, show_table_name) ==
    IF idx > Len(children) THEN <<>>
    ELSE <<BranchLine(children[idx], idx = Len(children),
                      ConnectorPrefix(prefix, is_last, show_table_name))>>
         \o Under(registry, tr, parent, children[idx].child_table, visited,
                  NewPrefix(prefix, idx = Len(children)), idx = Len(children), depth)
         \o DrawChildren(registry, tr, parent, children, idx + 1, visited, prefix,
                         is_last, depth, show_table_name)

\* the lines one call appends; visited is the caller's set, the call's own
\* additions stay in its copy
draw_relationships(registry, tr, parent, visited, prefix, is_last, depth, show_table_name) ==
    IF parent \notin Keys(registry) THEN <<>>
    ELSE IF parent \in visited /\ depth > 0 THEN <<>>
    ELSE (IF show_table_name THEN <<prefix \o parent>> ELSE <<>>)
         \o DrawChildren(registry, tr, parent,
                         StableSort(ChildrenOf(tr, parent)), 1,
                         visited \cup {parent}, prefix, is_last, depth, show_table_name)

RECURSIVE DrawRoots(_, _, _, _)
\* for idx, root in enumerate(root_tables); roots is that list
DrawRoots(registry, tr, roots, idx) ==
    IF idx > Len(roots) THEN <<>>
    ELSE (IF roots[idx] \in Keys(registry)
          THEN draw_relationships(registry, tr, roots[idx], {}, "", TRUE, 0, TRUE)
               \o (IF idx < Len(roots) THEN <<"">> ELSE <<>>)
          ELSE <<>>)
         \o DrawRoots(registry, tr, roots, idx + 1)

\* all_connected: every parent and every child of the tree
AllConnected(tr) ==
    TreeKeys(tr)
    \cup UNION {{tr[k].children[c].child_table : c \in 1..Len(tr[k].children)} :
                  k \in 1..Len(tr)}

\* orphan_tables
OrphanTables(registry, tr) == SortedNames(Keys(registry) \ AllConnected(tr))

\* the lines drawn from the roots, before the standalone section
TreeLines(registry, tr) == DrawRoots(registry, tr, RootTables(tr), 1)

\* if orphan_tables: a blank line, the header and the tables
StandaloneSection(orphan_tables) ==
    IF orphan_tables # <<>> THEN <<"", StandaloneHeader>> \o orphan_tables ELSE <<>>

\* if not tree: return ["No relationships defined."]
DiagramOf(registry, tr) ==
    IF tr = <<>> THEN <<NoRelationships>>
    ELSE TreeLines(registry, tr) \o StandaloneSection(OrphanTables(registry, tr))

_generate_ascii_relationship_diagram(registry) ==
    DiagramOf(registry, _build_relationship_tree(registry))

(***************************************************************************)
(* _generate_plantuml_diagram                                              *)
(* U+2192 is written "->", as in the relationship tree.                    *)
(***************************************************************************)
StartUml == <<"@startuml", "!theme plain", "skinparam linetype ortho", "">>
EndUml == <<"", "@enduml">>
DefaultColumnType == "INTEGER"
OneToMany == " ||--o{ "

\* table_name.split('.')[-1] if '.' in table_name else table_name
CleanName(table_name) ==
    LET dots == {i \in 1..Len(table_name) : Ch(table_name, i) = "."}
    IN IF dots = {} THEN table_name
       ELSE SubSeq(table_name, Greatest(dots) + 1, Len(table_name))

RECURSIVE EntityOf(_)
\* clean_name.replace('.', '_')
EntityOf(clean_name) ==
    IF clean_name = "" THEN ""
    ELSE (IF Ch(clean_name, 1) = "." THEN "_" ELSE Ch(clean_name, 1))
         \o EntityOf(SubSeq(clean_name, 2, Len(clean_name)))

\* col = next((c for c in table.columns if c.name == name), None);
\* col.data_type if col else "INTEGER"
ColumnTypeOf(table, column_name) ==
    LET found == {k \in 1..Len(table.columns) : table.columns[k].name = column_name}
    IN IF found = {} THEN DefaultColumnType ELSE table.columns[Least(found)].data_type

\* f"  * {pk_col} : {col_type} <<PK>>"
PrimaryKeyLine(table, pk_col) ==
    "  * " \o pk_col \o " : " \o ColumnTypeOf(table, pk_col) \o " <<PK>>"

\* f"  - {fk_col} : {col_type} <<FK>>"
ForeignKeyLine(table, fk_col) ==
    "  - " \o fk_col \o " : " \o ColumnTypeOf(table, fk_col) \o " <<FK>>"

\* for pk_col in table.primary_key_columns
PrimaryKeyLines(table) ==
    [k \in 1..Len(table.primary_key_columns) |->
        PrimaryKeyLine(table, table.primary_key_columns[k])]

\* a column that is a primary key column also is marked as one only
MarksForeignKey_AlsoPrimaryKeys(table, fk_col) == TRUE

\* if fk_col not in table.primary_key_columns
MarksForeignKey(table, fk_col) ==
    \A k \in 1..Len(table.primary_key_columns) : table.primary_key_columns[k] # fk_col

\* for fk_col in fk.from_columns
ForeignKeyLinesOf(table, fk) ==
    [k \in 1..Len(SelectSeq(fk.from_columns, LAMBDA c : MarksForeignKey(table, c))) |->
        ForeignKeyLine(table, SelectSeq(fk.from_columns,
                                        LAMBDA c : MarksForeignKey(table, c))[k])]

RECURSIVE ForeignKeyLines(_, _)
\* for fk in table.foreign_keys, from the k-th on
ForeignKeyLines(table, k) ==
    IF k > Len(table.foreign_keys) THEN <<>>
    ELSE ForeignKeyLinesOf(table, table.foreign_keys[k]) \o ForeignKeyLines(table, k + 1)

\* the lines of one table: entity "..." as ... {, its columns, }, and ""
EntityBlock(table_name, table) ==
    <<"entity \"" \o CleanName(table_name) \o "\" as "
          \o EntityOf(CleanName(table_name)) \o " {">>
    \o PrimaryKeyLines(table)
    \o ForeignKeyLines(table, 1)
    \o <<"}", "">>

RECURSIVE EntityBlocks(_, _, _)
\* for table_name in sorted(tables.keys()), from the k-th on
EntityBlocks(registry, names, k) ==
    IF k > Len(names) THEN <<>>
    ELSE EntityBlock(names[k], Lookup(registry, names[k]))
         \o EntityBlocks(registry, names, k + 1)

\* sorted(table.foreign_keys, key=lambda x: x.from_columns[0]): stable
FirstColumnRank(fks, i) ==
    1 + Cardinality({j \in 1..Len(fks) :
                        \/ StrLess(fks[j].from_columns[1], fks[i].from_columns[1])
                        \/ (fks[j].from_columns[1] = fks[i].from_columns[1] /\ j < i)})

SortByFirstColumn(fks) ==
    [r \in 1..Len(fks) |-> fks[CHOOSE i \in 1..Len(fks) : FirstColumnRank(fks, i) = r]]

\* f"{to_entity} ||--o{{ {from_entity} : \"{from_cols} -> {to_cols}\""
RelationshipLine(table_name, fk) ==
    EntityOf(CleanName(fk.to_table)) \o OneToMany \o EntityOf(CleanName(table_name))
    \o " : \"" \o JoinWith(fk.from_columns, ", ") \o " " \o Arrow \o " "
    \o JoinWith(fk.to_columns, ", ") \o "\""

\* for fk in sorted(table.foreign_keys, ...)
RelationshipLinesOf(table_name, table) ==
    [k \in 1..Len(table.foreign_keys) |->
        RelationshipLine(table_name, SortByFirstColumn(table.foreign_keys)[k])]

RECURSIVE RelationshipLines(_, _, _)
\* the second loop over sorted(tables.keys()), from the k-th name on
RelationshipLines(registry, names, k) ==
    IF k > Len(names) THEN <<>>
    ELSE RelationshipLinesOf(names[k], Lookup(registry, names[k]))
         \o RelationshipLines(registry, names, k + 1)

_generate_plantuml_diagram(registry) ==
    StartUml
    \o EntityBlocks(registry, SortedNames(Keys(registry)), 1)
    \o RelationshipLines(registry, SortedNames(Keys(registry)), 1)
    \o EndUml

(***************************************************************************)
(* Inputs.                                                                 *)
(***************************************************************************)
RECURSIVE StringsOver(_, _)
\* every string of at most n characters of cs
StringsOver(cs, n) ==
    IF n = 0 THEN {""}
    ELSE LET p == StringsOver(cs, n - 1) IN p \cup {s \o c : s \in p, c \in cs}

MaxTextLen == 6
TextChars == {"-", "/", "*", "\n", " ", "a"}

(***************************************************************************)
(* Normalizing a text, and normalizing the result again.                   *)
(***************************************************************************)
Idle == /\ normalized = "" /\ renormalized = ""
        /\ given = <<>> /\ table_def = "" /\ columns = <<>>
        /\ tables = <<>> /\ relationships = <<>>
        /\ tree = <<>> /\ root_tables = <<>> /\ lines = <<>>

InitNormalize ==
    /\ NoConversion /\ NoScanning /\ NoDrawing /\ NoLooping
    /\ pc = "raw"
    /\ sql_content \in StringsOver(TextChars, MaxTextLen)
    /\ Idle

NormalizeSql ==
    /\ pc = "raw"
    /\ normalized' = _normalize_sql(sql_content)
    /\ pc' = "normalized"
    /\ UNCHANGED <<sql_content, renormalized, given, table_def, columns, tables,
                   relationships, tree, root_tables, lines>>
    /\ UNCHANGED <<conversion, scanning, drawing, looping>>

NormalizeAgain ==
    /\ pc = "normalized"
    /\ renormalized' = _normalize_sql(normalized)
    /\ pc' = "renormalized"
    /\ UNCHANGED <<sql_content, normalized, given, table_def, columns, tables,
                   relationships, tree, root_tables, lines>>
    /\ UNCHANGED <<conversion, scanning, drawing, looping>>

NextNormalize == NormalizeSql \/ NormalizeAgain

SpecNormalize == InitNormalize /\ [][NextNormalize]_vars

(***************************************************************************)
(* One column definition, put together from a name, a type and clauses,    *)
(* handed to _parse_columns.                                               *)
(***************************************************************************)
MaxClauses == 3
MaxOver == 2

\* 62 characters, none of them a space, a comma, a quote or a parenthesis
LiteralChars == DigitChars \o LowerLetters \o UpperLetters
LiteralOf(n) == SubSeq(LiteralChars, 1, n)

NotNullClause(text) == [k |-> "notnull", text |-> text, e |-> ""]
UniqueClause(text) == [k |-> "unique", text |-> text, e |-> ""]
\* DEFAULT lit, the literal bare or between quotes
DefaultClause(lit, quote) ==
    [k |-> "default", text |-> "DEFAULT " \o quote \o lit \o quote, e |-> lit]
\* CHECK ( e ), with the spelling and the blanks of kw, open and close
CheckClause(kw, open, e, close) ==
    [k |-> "check", text |-> kw \o open \o e \o close, e |-> e]

DefaultLengths == (DefaultMaxLen - 1)..(DefaultMaxLen + MaxOver)

Clauses ==
    {NotNullClause("NOT NULL"), NotNullClause("not null"), UniqueClause("UNIQUE")}
    \cup {DefaultClause("0", ""), DefaultClause("abc", "'")}
    \cup {DefaultClause(LiteralOf(n), "'") : n \in DefaultLengths}
    \cup {CheckClause("CHECK", " (", "a > 0", ")"),
          CheckClause("CHECK", " (", "(a > 0) AND (b < (a + 10))", ")"),
          CheckClause("check", "( ", "b IN (1, 2)", " )"),
          CheckClause("CHECK", " (", "luhn_check(n)", ")")}

ColumnNames == {"a", "is_unique"}
ColumnTypes == {"INT", "VARCHAR(10)"}

CountOf(cl, kind) == Cardinality({i \in 1..Len(cl) : cl[i].k = kind})

\* clauses in any order, none twice, at most one DEFAULT
ClauseLists ==
    UNION {{cl \in [1..n -> Clauses] :
               /\ \A i, j \in 1..n : i # j => cl[i] # cl[j]
               /\ CountOf(cl, "default") <= 1} : n \in 0..MaxClauses}

RECURSIVE ClauseText(_)
ClauseText(cl) == IF cl = <<>> THEN "" ELSE " " \o Head(cl).text \o ClauseText(Tail(cl))

ColumnText(c) == c.name \o " " \o c.type \o ClauseText(c.clauses)

InitColumns ==
    /\ NoConversion /\ NoScanning /\ NoDrawing /\ NoLooping
    /\ pc = "body"
    /\ given \in [name : ColumnNames, type : ColumnTypes, clauses : ClauseLists]
    /\ table_def = ColumnText(given)
    /\ sql_content = "" /\ normalized = "" /\ renormalized = ""
    /\ columns = <<>> /\ tables = <<>> /\ relationships = <<>>
    /\ tree = <<>> /\ root_tables = <<>> /\ lines = <<>>

ParseColumns ==
    /\ pc = "body"
    /\ columns' = _parse_columns(table_def)
    /\ pc' = "parsed"
    /\ UNCHANGED <<sql_content, normalized, renormalized, given, table_def,
                   tables, relationships, tree, root_tables, lines>>
    /\ UNCHANGED <<conversion, scanning, drawing, looping>>

NextColumns == ParseColumns

SpecColumns == InitColumns /\ [][NextColumns]_vars

(***************************************************************************)
(* A document put together from statements, parsed and rendered.           *)
(***************************************************************************)
MaxStatements == 3

\* kind: what the statement is; target: the table it names; closed: whether
\* its parentheses balance; mark: the name it would leave in the registry
Statement(kind, target, closed, mark, text) ==
    [kind |-> kind, target |-> target, closed |-> closed, mark |-> mark, text |-> text]

CreateParent ==
    Statement("create", "parent", TRUE, "parent",
              "CREATE TABLE parent (id INT PRIMARY KEY);")
CreateChild ==
    Statement("create", "child", TRUE, "child",
              "CREATE TABLE child (id INT, parent_id INT, "
              \o "FOREIGN KEY (parent_id) REFERENCES parent (id));")
CreateEmployees ==
    Statement("create", "employees", TRUE, "employees",
              "CREATE TABLE employees (id INT, manager_id INT, CONSTRAINT fk_manager "
              \o "FOREIGN KEY (manager_id) REFERENCES employees (id));")
CreateOpen ==
    Statement("create", "x", FALSE, "x", "CREATE TABLE x (a INT, b INT")

AddColumn ==
    Statement("alter", "parent", TRUE, "note", "ALTER TABLE parent ADD COLUMN note TEXT;")
AlterFkKnown ==
    Statement("alter_fk", "child", TRUE, "fk_child_emp",
              "ALTER TABLE ONLY child ADD CONSTRAINT fk_child_emp "
              \o "FOREIGN KEY (id) REFERENCES employees (id);")
AlterFkUnknown ==
    Statement("alter_fk", "orders", TRUE, "fk_orders",
              "ALTER TABLE orders ADD CONSTRAINT fk_orders "
              \o "FOREIGN KEY (parent_id) REFERENCES parent (id);")
AlterCheckKnown ==
    Statement("alter_check", "parent", TRUE, "ck_parent",
              "ALTER TABLE parent ADD CONSTRAINT ck_parent CHECK (id > (0 + 1));")
AlterCheckUnknown ==
    Statement("alter_check", "orders", TRUE, "ck_orders",
              "ALTER TABLE orders ADD CONSTRAINT ck_orders CHECK (total > 0);")
AlterCheckOpen ==
    Statement("alter_check", "parent", FALSE, "ck_open",
              "ALTER TABLE parent ADD CONSTRAINT ck_open CHECK (id > (0")
IndexKnown ==
    Statement("index", "parent", TRUE, "idx_parent",
              "CREATE UNIQUE INDEX idx_parent ON parent USING btree (id);")
IndexUnknown ==
    Statement("index", "orders", TRUE, "idx_orders",
              "CREATE INDEX idx_orders ON orders (total);")
IndexOpen ==
    Statement("index", "parent", FALSE, "idx_open",
              "CREATE INDEX idx_open ON parent (lower(id")
CommentKnown ==
    Statement("comment", "parent", TRUE, "the parent",
              "COMMENT ON TABLE parent IS 'the parent';")
CommentUnknown ==
    Statement("comment", "orders", TRUE, "no such table",
              "COMMENT ON TABLE orders IS 'no such table';")

Statements ==
    {CreateParent, CreateChild, CreateEmployees, CreateOpen, AddColumn,
     AlterFkKnown, AlterFkUnknown, AlterCheckKnown, AlterCheckUnknown, AlterCheckOpen,
     IndexKnown, IndexUnknown, IndexOpen, CommentKnown, CommentUnknown}

\* the statements of a document: any order, none twice
Documents ==
    UNION {{d \in [1..n -> Statements] : \A i, j \in 1..n : i # j => d[i] # d[j]} :
              n \in 0..MaxStatements}

RECURSIVE DocumentText(_)
\* one statement a line, a comment line first
DocumentText(d) ==
    IF d = <<>> THEN "-- schema\n"
    ELSE DocumentText(SubSeq(d, 1, Len(d) - 1)) \o d[Len(d)].text \o "\n"

Init ==
    /\ NoConversion /\ NoScanning /\ NoDrawing /\ NoLooping
    /\ pc = "raw"
    /\ given \in Documents
    /\ sql_content = DocumentText(given)
    /\ normalized = "" /\ renormalized = "" /\ table_def = "" /\ columns = <<>>
    /\ tables = <<>> /\ relationships = <<>>
    /\ tree = <<>> /\ root_tables = <<>> /\ lines = <<>>

\* SchemaParser.parse on the text read from the file
Parse ==
    /\ pc = "raw"
    /\ LET result == parse(sql_content)
       IN /\ tables' = result.tables
          /\ relationships' = result.relationships
    /\ normalized' = _normalize_sql(sql_content)
    /\ pc' = "parsed"
    /\ UNCHANGED <<sql_content, renormalized, given, table_def, columns,
                   tree, root_tables, lines>>
    /\ UNCHANGED <<conversion, scanning, drawing, looping>>

\* _generate_ascii_relationship_diagram on the registry
Render ==
    /\ pc = "parsed"
    /\ tree' = _build_relationship_tree(tables)
    /\ root_tables' = RootTables(_build_relationship_tree(tables))
    /\ lines' = _generate_ascii_relationship_diagram(tables)
    /\ pc' = "rendered"
    /\ UNCHANGED <<sql_content, normalized, renormalized, given, table_def, columns,
                   tables, relationships>>
    /\ UNCHANGED <<conversion, scanning, drawing, looping>>

Next == Parse \/ Render

Spec == Init /\ [][Next]_vars

(***************************************************************************)
(* SchemaParser.parse pass by pass: pc names the pass that has finished.   *)
(***************************************************************************)
\* a mutant of NextPass: the ALTER TABLE foreign keys before the tables
NextPass_AttachesBeforeTables(done) ==
    CASE done = "raw" -> "normalize"
      [] done = "normalize" -> "alter_fk"
      [] done = "alter_fk" -> "tables"
      [] done = "tables" -> "alter_check"
      [] done = "alter_check" -> "indexes"
      [] done = "indexes" -> "comments"
      [] OTHER -> "return"

\* the pass that parse calls after the pass done
NextPass(done) ==
    CASE done = "raw" -> "normalize"
      [] done = "normalize" -> "tables"
      [] done = "tables" -> "alter_fk"
      [] done = "alter_fk" -> "alter_check"
      [] done = "alter_check" -> "indexes"
      [] done = "indexes" -> "comments"
      [] OTHER -> "return"

InitPhases == Init

Registry == [tables |-> tables, relationships |-> relationships]

Normalize ==
    /\ NextPass(pc) = "normalize"
    /\ normalized' = _normalize_sql(sql_content)
    /\ pc' = "normalize"
    /\ UNCHANGED <<sql_content, renormalized, given, table_def, columns,
                   tables, relationships, tree, root_tables, lines>>
    /\ UNCHANGED <<conversion, scanning, drawing, looping>>

ExtractTables ==
    /\ NextPass(pc) = "tables"
    /\ tables' = _parse_tables(normalized, Registry).tables
    /\ relationships' = _parse_tables(normalized, Registry).relationships
    /\ pc' = "tables"
    /\ UNCHANGED <<sql_content, normalized, renormalized, given, table_def, columns,
                   tree, root_tables, lines>>
    /\ UNCHANGED <<conversion, scanning, drawing, looping>>

AttachForeignKeys ==
    /\ NextPass(pc) = "alter_fk"
    /\ tables' = _parse_alter_table_foreign_keys(normalized, Registry).tables
    /\ relationships' = _parse_alter_table_foreign_keys(normalized, Registry).relationships
    /\ pc' = "alter_fk"
    /\ UNCHANGED <<sql_content, normalized, renormalized, given, table_def, columns,
                   tree, root_tables, lines>>
    /\ UNCHANGED <<conversion, scanning, drawing, looping>>

AttachChecks ==
    /\ NextPass(pc) = "alter_check"
    /\ tables' = _parse_alter_table_check_constraints(normalized, tables)
    /\ pc' = "alter_check"
    /\ UNCHANGED <<sql_content, normalized, renormalized, given, table_def, columns,
                   relationships, tree, root_tables, lines>>
    /\ UNCHANGED <<conversion, scanning, drawing, looping>>

AttachIndexes ==
    /\ NextPass(pc) = "indexes"
    /\ tables' = _parse_indexes(normalized, tables)
    /\ pc' = "indexes"
    /\ UNCHANGED <<sql_content, normalized, renormalized, given, table_def, columns,
                   relationships, tree, root_tables, lines>>
    /\ UNCHANGED <<conversion, scanning, drawing, looping>>

AttachComments ==
    /\ NextPass(pc) = "comments"
    /\ tables' = _parse_table_comments(normalized, tables)
    /\ pc' = "comments"
    /\ UNCHANGED <<sql_content, normalized, renormalized, given, table_def, columns,
                   relationships, tree, root_tables, lines>>
    /\ UNCHANGED <<conversion, scanning, drawing, looping>>

NextPhases ==
    \/ Normalize
    \/ ExtractTables
    \/ AttachForeignKeys
    \/ AttachChecks
    \/ AttachIndexes
    \/ AttachComments

SpecPhases == InitPhases /\ [][NextPhases]_vars

(***************************************************************************)
(* The loops of _parse_tables and _parse_alter_table_foreign_keys pass by  *)
(* pass: `cursor` is the local i of the while loop, `pending` the          *)
(* alter_matches the for loop has still to handle.                         *)
(***************************************************************************)
MaxPadding == 2
MaxLoopStatements == 2

RECURSIVE Filler(_)
\* a word of n letters
Filler(n) ==
    IF n = 0 THEN ""
    ELSE IF n % 2 = 0 THEN Filler(n \div 2) \o Filler(n \div 2)
    ELSE "x" \o Filler(n - 1)

\* an ALTER TABLE statement whose foreign key stands after a word of n letters
FarForeignKey(n) ==
    "CREATE TABLE parent (id INT);\nALTER TABLE parent DISABLE TRIGGER " \o Filler(n)
    \o "; ALTER TABLE parent ADD CONSTRAINT fk_far FOREIGN KEY (id) REFERENCES parent (id);\n"

\* the shorter documents of Spec, and texts whose foreign key stands about one
\* window away from the ALTER TABLE before it
LoopTexts ==
    {DocumentText(d) : d \in {x \in Documents : Len(x) <= MaxLoopStatements}}
    \cup {FarForeignKey(AddConstraintWindow - 60 + k) : k \in 0..MaxPadding}

InitLoops ==
    /\ NoConversion /\ NoScanning /\ NoDrawing /\ NoLooping
    /\ pc = "raw"
    /\ sql_content \in LoopTexts
    /\ given = <<>>
    /\ normalized = "" /\ renormalized = "" /\ table_def = "" /\ columns = <<>>
    /\ tables = <<>> /\ relationships = <<>>
    /\ tree = <<>> /\ root_tables = <<>> /\ lines = <<>>

\* normalized = self._normalize_sql(self.sql_content); _parse_tables: i = 0
StartTables ==
    /\ pc = "raw"
    /\ normalized' = _normalize_sql(sql_content)
    /\ cursor' = 1
    /\ pc' = "tables"
    /\ UNCHANGED <<sql_content, renormalized, given, table_def, columns,
                   tables, relationships, tree, root_tables, lines, pending>>
    /\ UNCHANGED <<conversion, scanning, drawing>>

\* create_match = re.search(..., sql[i:]) and the scan after it
CreateMatchAt == SearchFrom(CreateTableRe, normalized, cursor)
ScanAt == ScanParens(normalized, CreateMatchAt.e, 1)

\* one pass of `while i < len(sql)` that finds a CREATE TABLE; i = j
TableStep ==
    /\ pc = "tables"
    /\ cursor <= Len(normalized)
    /\ CreateMatchAt.ok
    /\ tables' = AfterScan(normalized, Registry, CreateMatchAt, ScanAt).tables
    /\ relationships' = AfterScan(normalized, Registry, CreateMatchAt, ScanAt).relationships
    /\ cursor' = ScanAt.i
    /\ UNCHANGED <<pc, sql_content, normalized, renormalized, given, table_def, columns,
                   tree, root_tables, lines, pending>>
    /\ UNCHANGED <<conversion, scanning, drawing>>

\* the while loop ends, by its condition or by break;
\* alter_matches = list(re.finditer(alter_table_pattern, sql, ...))
TablesDone ==
    /\ pc = "tables"
    /\ cursor > Len(normalized) \/ ~CreateMatchAt.ok
    /\ pending' = FindIter(AlterTableRe, normalized)
    /\ pc' = "alter_fk"
    /\ UNCHANGED <<sql_content, normalized, renormalized, given, table_def, columns,
                   tables, relationships, tree, root_tables, lines, cursor>>
    /\ UNCHANGED <<conversion, scanning, drawing>>

\* one pass of `for alter_match in alter_matches`
AlterStep ==
    /\ pc = "alter_fk"
    /\ pending # <<>>
    /\ tables' = AlterForeignKeyStep(normalized, Head(pending), Registry).tables
    /\ relationships' = AlterForeignKeyStep(normalized, Head(pending), Registry).relationships
    /\ pending' = Tail(pending)
    /\ UNCHANGED <<pc, sql_content, normalized, renormalized, given, table_def, columns,
                   tree, root_tables, lines, cursor>>
    /\ UNCHANGED <<conversion, scanning, drawing>>

\* the for loop is over; the three passes after it, and return self.tables
AlterDone ==
    /\ pc = "alter_fk"
    /\ pending = <<>>
    /\ tables' = WithForeignKeys(normalized, Registry).tables
    /\ pc' = "parsed"
    /\ UNCHANGED <<sql_content, normalized, renormalized, given, table_def, columns,
                   relationships, tree, root_tables, lines, cursor, pending>>
    /\ UNCHANGED <<conversion, scanning, drawing>>

\* the passes of the two loops
LoopStep ==
    \/ TableStep
    \/ TablesDone
    \/ AlterStep
    \/ AlterDone

NextLoops == StartTables \/ LoopStep

\* inside the two loops a pass can always be made: the guards of TableStep
\* and TablesDone, and of AlterStep and AlterDone, exclude each other
InLoops == pc \in {"tables", "alter_fk"}

\* the interpreter runs parse on: inside the loops, passes keep being made
SpecLoops == InitLoops /\ [][NextLoops]_vars /\ ([]<>(~InLoops) \/ []<><<LoopStep>>_vars)

(***************************************************************************)
(* Two tables and two parents, and one ALTER TABLE ... ADD CONSTRAINT ...  *)
(* FOREIGN KEY statement on one of the tables, before or after them.       *)
(***************************************************************************)
AlterHeads ==
    {"ALTER TABLE ", "ALTER TABLE ONLY ", "ALTER TABLE IF EXISTS ",
     "ALTER TABLE ONLY IF EXISTS "}
AlterTargets == {"t", "s.t"}
AlterParents == {"p", "s.p"}
AlterColumns == {<<"a">>, <<"a", "b">>}
AlterNames == {"fk_n", "t_p_fkey"}

AlterStatements ==
    [head : AlterHeads, table : AlterTargets, parent : AlterParents,
     cols : AlterColumns, name : AlterNames, first : BOOLEAN]

CreatedTables ==
    "CREATE TABLE t (a INT, b INT);\nCREATE TABLE s.t (a INT, b INT);\n"
    \o "CREATE TABLE p (a INT, b INT);\nCREATE TABLE s.p (a INT, b INT);\n"

AlterText(st) ==
    st.head \o st.table \o " ADD CONSTRAINT " \o st.name
    \o " FOREIGN KEY (" \o JoinWith(st.cols, ", ") \o ") REFERENCES " \o st.parent
    \o " (" \o JoinWith(st.cols, ", ") \o ");\n"

AlterDocument(st) ==
    IF st.first THEN AlterText(st) \o CreatedTables ELSE CreatedTables \o AlterText(st)

InitAlter ==
    /\ NoConversion /\ NoScanning /\ NoDrawing /\ NoLooping
    /\ pc = "raw"
    /\ given \in AlterStatements
    /\ sql_content = AlterDocument(given)
    /\ normalized = "" /\ renormalized = "" /\ table_def = "" /\ columns = <<>>
    /\ tables = <<>> /\ relationships = <<>>
    /\ tree = <<>> /\ root_tables = <<>> /\ lines = <<>>

NextAlter == Parse

SpecAlter == InitAlter /\ [][NextAlter]_vars

(***************************************************************************)
(* CREATE INDEX statements in the shapes of _parse_indexes, after the      *)
(* tables t and s.t: one statement of any shape, or two of the shapes on   *)
(* the two tables.                                                         *)
(***************************************************************************)
IndexHeads == {"CREATE INDEX ", "CREATE UNIQUE INDEX CONCURRENTLY "}
\* the index as written and the name the descriptor is to hold
IndexNames == {[text |-> "i", name |-> "i"], [text |-> "x.j", name |-> "j"]}
\* the table as written and its key; u is not registered
IndexTargets ==
    {[text |-> "t", key |-> "t"], [text |-> "ONLY public.t", key |-> "t"],
     [text |-> "s.t", key |-> "s.t"], [text |-> "u", key |-> "u"]}
\* no method; USING before the column list; after it; directly before it
IndexShapes == {"plain", "before", "after", "direct"}
\* the column list as written and as the descriptor is to hold it
IndexColumnLists ==
    {[text |-> "a", columns |-> "a"], [text |-> " a, b ", columns |-> "a, b"],
     [text |-> "lower(a)", columns |-> "lower(a)"]}
IndexMethod == "gin"

IndexStatements ==
    [head : IndexHeads, index : IndexNames, target : IndexTargets, shape : IndexShapes,
     list : IndexColumnLists]
\* the statements a second statement is taken from
SecondStatements ==
    {st \in IndexStatements :
        /\ st.head = "CREATE INDEX " /\ st.index.text = "x.j" /\ st.list.text = "a"
        /\ st.target.text \in {"t", "s.t"}}

IndexText(st) ==
    st.head \o st.index.text \o " ON " \o st.target.text
    \o (CASE st.shape = "plain" -> " (" \o st.list.text \o ")"
          [] st.shape = "before" -> " USING " \o IndexMethod \o " (" \o st.list.text \o ")"
          [] st.shape = "after" -> " (" \o st.list.text \o ") USING " \o IndexMethod
          [] st.shape = "direct" -> " USING " \o IndexMethod \o "(" \o st.list.text \o ")")
    \o ";\n"

IndexedTables == "CREATE TABLE t (a INT, b INT);\nCREATE TABLE s.t (a INT, b INT);\n"

RECURSIVE IndexTexts(_)
IndexTexts(sts) == IF sts = <<>> THEN "" ELSE IndexText(Head(sts)) \o IndexTexts(Tail(sts))

InitIndex ==
    /\ NoConversion /\ NoScanning /\ NoDrawing /\ NoLooping
    /\ pc = "raw"
    /\ given \in {<<st>> : st \in IndexStatements}
                 \cup {<<a, b>> : a \in SecondStatements, b \in SecondStatements}
    /\ sql_content = IndexedTables \o IndexTexts(given)
    /\ normalized = "" /\ renormalized = "" /\ table_def = "" /\ columns = <<>>
    /\ tables = <<>> /\ relationships = <<>>
    /\ tree = <<>> /\ root_tables = <<>> /\ lines = <<>>

NextIndex == Parse

SpecIndex == InitIndex /\ [][NextIndex]_vars

(***************************************************************************)
(* One CREATE TABLE of plain column definitions, parsed.                   *)
(***************************************************************************)
MaxColumns == 3

PlainNames == {"a", "b", "unique_id", "is_unique"}
PlainTypes == {"INT", "VARCHAR(10)", "NUMERIC(10,2)"}

\* name TYPE, ..., the names distinct
PlainColumnLists ==
    UNION {{cl \in [1..n -> [name : PlainNames, type : PlainTypes]] :
               \A i, j \in 1..n : i # j => cl[i].name # cl[j].name} : n \in 0..MaxColumns}

PlainText(c) == c.name \o " " \o c.type

CreateTableText(cl) ==
    "CREATE TABLE t (" \o JoinWith([i \in 1..Len(cl) |-> PlainText(cl[i])], ", ") \o ");"

InitTable ==
    /\ NoConversion /\ NoScanning /\ NoDrawing /\ NoLooping
    /\ pc = "raw"
    /\ given \in PlainColumnLists
    /\ sql_content = CreateTableText(given)
    /\ normalized = "" /\ renormalized = "" /\ table_def = "" /\ columns = <<>>
    /\ tables = <<>> /\ relationships = <<>>
    /\ tree = <<>> /\ root_tables = <<>> /\ lines = <<>>

NextTable == Parse

SpecTable == InitTable /\ [][NextTable]_vars

(***************************************************************************)
(* One CREATE TABLE whose body is a list of fragments: column definitions  *)
(* (a name may come twice, a default may be a string with a comma, a name  *)
(* may begin with the letters of a constraint keyword) and table-level     *)
(* constraint clauses.                                                     *)
(***************************************************************************)
MaxBodyFragments == 3

ColumnFragment(name, text) == [kind |-> "column", name |-> name, text |-> text]
ClauseFragment(text) == [kind |-> "clause", name |-> "", text |-> text]

BodyFragments ==
    {ColumnFragment("a", "a INT"), ColumnFragment("a", "a TEXT NOT NULL"),
     ColumnFragment("b", "b INT"), ColumnFragment("a", "a TEXT DEFAULT 'x, a b'"),
     ColumnFragment("unique_id", "unique_id INT"),
     ColumnFragment("check_in", "check_in DATE"),
     ColumnFragment("constraint_type", "constraint_type TEXT"),
     ClauseFragment("PRIMARY KEY (a)"), ClauseFragment("UNIQUE (a, b)"),
     ClauseFragment("CONSTRAINT c CHECK (b > 0)"),
     ClauseFragment("FOREIGN KEY (b) REFERENCES p (id)")}

Bodies == UNION {[1..n -> BodyFragments] : n \in 1..MaxBodyFragments}

BodyText(body) ==
    "CREATE TABLE t (" \o JoinWith([i \in 1..Len(body) |-> body[i].text], ", ") \o ");"

InitBody ==
    /\ NoConversion /\ NoScanning /\ NoDrawing /\ NoLooping
    /\ pc = "raw"
    /\ given \in Bodies
    /\ sql_content = BodyText(given)
    /\ normalized = "" /\ renormalized = "" /\ table_def = "" /\ columns = <<>>
    /\ tables = <<>> /\ relationships = <<>>
    /\ tree = <<>> /\ root_tables = <<>> /\ lines = <<>>

NextBody == Parse

SpecBody == InitBody /\ [][NextBody]_vars

(***************************************************************************)
(* One table created as t, public.t or s.t, one foreign key in its body,   *)
(* and statements that name a table after it in one of the three ways.     *)
(***************************************************************************)
WrittenNames == {"t", "public.t", "s.t"}
WrittenParents == {"p", "public.p", "s.p"}
LaterKinds == {"fk", "check", "index", "comment"}

LaterText(kind, ref, to) ==
    CASE kind = "fk" -> "ALTER TABLE " \o ref \o " ADD CONSTRAINT fk FOREIGN KEY (a) REFERENCES "
                        \o to \o " (a);\n"
      [] kind = "check" -> "ALTER TABLE " \o ref \o " ADD CONSTRAINT ck CHECK (a > 0);\n"
      [] kind = "index" -> "CREATE INDEX i ON " \o ref \o " (a);\n"
      [] kind = "comment" -> "COMMENT ON TABLE " \o ref \o " IS 'c';\n"

NamesText(g) ==
    "CREATE TABLE " \o g.created \o " (a INT, FOREIGN KEY (a) REFERENCES " \o g.to \o " (a));\n"
    \o (IF "fk" \in g.kinds THEN LaterText("fk", g.ref, g.to) ELSE "")
    \o (IF "check" \in g.kinds THEN LaterText("check", g.ref, g.to) ELSE "")
    \o (IF "index" \in g.kinds THEN LaterText("index", g.ref, g.to) ELSE "")
    \o (IF "comment" \in g.kinds THEN LaterText("comment", g.ref, g.to) ELSE "")

InitNames ==
    /\ NoConversion /\ NoScanning /\ NoDrawing /\ NoLooping
    /\ pc = "raw"
    /\ given \in [created : WrittenNames, ref : WrittenNames, to : WrittenParents,
                  kinds : SUBSET LaterKinds]
    /\ sql_content = NamesText(given)
    /\ normalized = "" /\ renormalized = "" /\ table_def = "" /\ columns = <<>>
    /\ tables = <<>> /\ relationships = <<>>
    /\ tree = <<>> /\ root_tables = <<>> /\ lines = <<>>

NextNames == Parse

SpecNames == InitNames /\ [][NextNames]_vars

(***************************************************************************)
(* One CREATE TABLE whose body is put together from column definitions,    *)
(* with and without a PRIMARY KEY marker, and PRIMARY KEY clauses, parsed. *)
(***************************************************************************)
MaxKeyFragments == 3

\* kind: a column or a clause; marked: whether a column has the marker;
\* names: the leading identifier of a column, the column list of a clause
KeyFragment(kind, marked, names, text) ==
    [kind |-> kind, marked |-> marked, names |-> names, text |-> text]

KeyFragments ==
    {KeyFragment("column", FALSE, <<"a">>, "a INT"),
     KeyFragment("column", FALSE, <<"c">>, "c VARCHAR(10) NOT NULL"),
     KeyFragment("column", TRUE, <<"id">>, "id INT PRIMARY KEY"),
     KeyFragment("column", TRUE, <<"b">>, "b INT NOT NULL primary key"),
     KeyFragment("clause", FALSE, <<"a", "b">>, "PRIMARY KEY (a, \"b\")"),
     KeyFragment("clause", FALSE, <<"id">>, "CONSTRAINT pk PRIMARY KEY (id)")}

\* the fragments of a body: any order, none twice
KeyBodies ==
    UNION {{d \in [1..n -> KeyFragments] : \A i, j \in 1..n : i # j => d[i] # d[j]} :
              n \in 1..MaxKeyFragments}

KeyTableText(d) ==
    "CREATE TABLE t (" \o JoinWith([i \in 1..Len(d) |-> d[i].text], ", ") \o ");"

InitKeys ==
    /\ NoConversion /\ NoScanning /\ NoDrawing /\ NoLooping
    /\ pc = "raw"
    /\ given \in KeyBodies
    /\ sql_content = KeyTableText(given)
    /\ normalized = "" /\ renormalized = "" /\ table_def = "" /\ columns = <<>>
    /\ tables = <<>> /\ relationships = <<>>
    /\ tree = <<>> /\ root_tables = <<>> /\ lines = <<>>

NextKeys == Parse

SpecKeys == InitKeys /\ [][NextKeys]_vars

(***************************************************************************)
(* A registry of tables with foreign keys among them, rendered.            *)
(***************************************************************************)
MaxForeignKeys == 2

TableNames == <<"a", "b", "c">>
\* zz is referenced and never registered
TargetNames == <<"a", "b", "c", "zz">>

\* what _parse_tables stores for
\* CREATE TABLE n (id INT, FOREIGN KEY (p_id) REFERENCES p (id), ...)
IdColumn ==
    [name |-> "id", data_type |-> "INT", is_nullable |-> TRUE, default_value |-> None,
     is_primary_key |-> FALSE, is_unique |-> FALSE, check_constraints |-> <<>>]
ForeignKeyTo(n, p) ==
    [from_table |-> n, from_columns |-> <<p \o "_id">>, to_table |-> p,
     to_columns |-> <<"id">>, constraint_name |-> "unnamed"]
TableWith(n, targets) ==
    [name |-> n, schema |-> "public", columns |-> <<IdColumn>>,
     primary_key_columns |-> <<>>,
     foreign_keys |-> [k \in 1..Len(targets) |-> ForeignKeyTo(n, targets[k])],
     check_constraints |-> <<>>, indexes |-> <<>>, comment |-> None]

\* the tables of the registry in the order they were stored, none twice
TableOrders ==
    UNION {{o \in [1..n -> 1..Len(TableNames)] : \A i, j \in 1..n : i # j => o[i] # o[j]} :
              n \in 0..Len(TableNames)}
\* the tables the foreign keys of one table reference, in the order of TargetNames
TargetLists ==
    UNION {{[k \in 1..n |-> TargetNames[t[k]]] :
               t \in {u \in [1..n -> 1..Len(TargetNames)] :
                         \A i, j \in 1..n : i < j => u[i] <= u[j]}} :
              n \in 0..MaxForeignKeys}

RECURSIVE ForeignKeysIn(_, _)
\* self.relationships after _parse_tables: the foreign keys, table by table
ForeignKeysIn(registry, k) ==
    IF k > Len(registry) THEN <<>>
    ELSE registry[k].foreign_keys \o ForeignKeysIn(registry, k + 1)

InitTree ==
    /\ NoConversion /\ NoScanning /\ NoDrawing /\ NoLooping
    /\ pc = "parsed"
    /\ given \in [order : TableOrders, fks : [1..Len(TableNames) -> TargetLists]]
    /\ \A k \in 1..Len(TableNames) :
           (\A i \in 1..Len(given.order) : given.order[i] # k) => given.fks[k] = <<>>
    /\ tables = [i \in 1..Len(given.order) |->
                    TableWith(TableNames[given.order[i]], given.fks[given.order[i]])]
    /\ relationships = ForeignKeysIn(tables, 1)
    /\ sql_content = "" /\ normalized = "" /\ renormalized = ""
    /\ table_def = "" /\ columns = <<>>
    /\ tree = <<>> /\ root_tables = <<>> /\ lines = <<>>

NextTree == Render

SpecTree == InitTree /\ [][NextTree]_vars

(***************************************************************************)
(* The entity diagram of a registry: tables with and without a schema,     *)
(* primary keys of no, one and two columns, foreign keys on primary key    *)
(* columns, on other columns and on columns the table does not have.       *)
(***************************************************************************)
MaxEntityTables == 2

\* schema and name of the tables; the keys are b, s.a and a
EntityTables == <<[schema |-> "public", name |-> "b"], [schema |-> "s", name |-> "a"],
                  [schema |-> "public", name |-> "a"]>>
EntityColumns ==
    <<IdColumn, [IdColumn EXCEPT !.name = "p_id", !.data_type = "BIGINT"]>>
PrimaryKeyChoices == {<<>>, <<"id">>, <<"id", "p_id">>}
\* the foreign keys: zz is not registered, x_id is no column of the table
ForeignKeyChoices ==
    {[from_columns |-> <<"p_id">>, to_table |-> "a", to_name |-> "a", to_columns |-> <<"id">>],
     [from_columns |-> <<"id">>, to_table |-> "b", to_name |-> "b", to_columns |-> <<"id">>],
     [from_columns |-> <<"id", "p_id">>, to_table |-> "s.a", to_name |-> "a",
      to_columns |-> <<"id", "p_id">>],
     [from_columns |-> <<"x_id">>, to_table |-> "zz", to_name |-> "zz",
      to_columns |-> <<"id">>]}
ForeignKeyChoiceLists == UNION {[1..n -> ForeignKeyChoices] : n \in 0..MaxForeignKeys}
EntityOrders ==
    UNION {{o \in [1..n -> 1..Len(EntityTables)] : \A i, j \in 1..n : i # j => o[i] # o[j]} :
              n \in 0..MaxEntityTables}

\* what the parser stores for a table of these columns, keys and foreign keys
EntityTable(t, pk, fks) ==
    [name |-> t.name, schema |-> t.schema,
     columns |-> [k \in 1..Len(EntityColumns) |->
                     [EntityColumns[k] EXCEPT
                         !.is_primary_key = \E i \in 1..Len(pk) : pk[i] = EntityColumns[k].name]],
     primary_key_columns |-> pk,
     foreign_keys |-> [k \in 1..Len(fks) |->
                          [from_table |-> FullName(t.schema, t.name),
                           from_columns |-> fks[k].from_columns,
                           to_table |-> fks[k].to_table,
                           to_columns |-> fks[k].to_columns,
                           constraint_name |-> "unnamed"]],
     check_constraints |-> <<>>, indexes |-> <<>>, comment |-> None]

InitEntity ==
    /\ NoConversion /\ NoScanning /\ NoDrawing /\ NoLooping
    /\ pc = "parsed"
    /\ given \in [order : EntityOrders,
                  pk : [1..Len(EntityTables) -> PrimaryKeyChoices],
                  fks : [1..Len(EntityTables) -> ForeignKeyChoiceLists]]
    /\ \A k \in 1..Len(EntityTables) :
           (\A i \in 1..Len(given.order) : given.order[i] # k)
               => given.fks[k] = <<>> /\ given.pk[k] = <<>>
    /\ tables = [i \in 1..Len(given.order) |->
                    EntityTable(EntityTables[given.order[i]], given.pk[given.order[i]],
                                given.fks[given.order[i]])]
    /\ relationships = ForeignKeysIn(tables, 1)
    /\ sql_content = "" /\ normalized = "" /\ renormalized = ""
    /\ table_def = "" /\ columns = <<>>
    /\ tree = <<>> /\ root_tables = <<>> /\ lines = <<>>

\* lines = _generate_plantuml_diagram(tables)
Emit ==
    /\ pc = "parsed"
    /\ lines' = _generate_plantuml_diagram(tables)
    /\ pc' = "emitted"
    /\ UNCHANGED <<sql_content, normalized, renormalized, given, table_def, columns,
                   tables, relationships, tree, root_tables>>
    /\ UNCHANGED <<conversion, scanning, drawing, looping>>

NextEntity == Emit

SpecEntity == InitEntity /\ [][NextEntity]_vars

(***************************************************************************)
(* The rendering followed call by call: the calls of draw_relationships    *)
(* under way are the frames of `stack`; a frame holds the arguments and    *)
(* locals of its call, `visited` as a reference to a set object of `heap`. *)
(***************************************************************************)
\* the frame of a call that has not yet run its first statement
CallOf(parent, visited, prefix, is_last, depth, show_table_name) ==
    [parent |-> parent, visited |-> visited, prefix |-> prefix, is_last |-> is_last,
     depth |-> depth, show_table_name |-> show_table_name,
     at |-> "entry", children |-> <<>>, idx |-> 0]

\* the same set object handed on, no copy made
VisitedCopy_HandsOnTheSet(objects, visited) == [heap |-> objects, ref |-> visited]

\* visited.copy(): a new set object with the elements of the old one
VisitedCopy(objects, visited) ==
    [heap |-> Append(objects, objects[visited]), ref |-> Len(objects) + 1]

Top == stack[Len(stack)]
Popped == SubSeq(stack, 1, Len(stack) - 1)
\* the frame of the innermost call, changed
WithTop(frame) == [stack EXCEPT ![Len(stack)] = frame]

\* the three tables registered in the order of their names, the foreign keys
\* of a table referencing different tables
DrawTargetLists ==
    {t \in TargetLists : \A i, j \in 1..Len(t) : i # j => t[i] # t[j]}

InitDraw ==
    /\ NoConversion /\ NoScanning /\ NoDrawing /\ NoLooping
    /\ pc = "parsed"
    /\ given \in [1..Len(TableNames) -> DrawTargetLists]
    /\ tables = [i \in 1..Len(TableNames) |-> TableWith(TableNames[i], given[i])]
    /\ relationships = ForeignKeysIn(tables, 1)
    /\ sql_content = "" /\ normalized = "" /\ renormalized = ""
    /\ table_def = "" /\ columns = <<>>
    /\ tree = <<>> /\ root_tables = <<>> /\ lines = <<>>

\* tree = _build_relationship_tree(tables); if not tree: return; root_tables
BeginDrawing ==
    /\ pc = "parsed"
    /\ tree' = _build_relationship_tree(tables)
    /\ root_tables' = RootTables(_build_relationship_tree(tables))
    /\ IF _build_relationship_tree(tables) = <<>>
       THEN lines' = <<NoRelationships>> /\ pc' = "rendered" /\ root_idx' = 0
       ELSE lines' = <<>> /\ pc' = "drawing" /\ root_idx' = 1
    /\ UNCHANGED <<sql_content, normalized, renormalized, given, table_def, columns,
                   tables, relationships, stack, heap, root_called>>
    /\ UNCHANGED <<conversion, scanning, looping>>

\* for idx, root in enumerate(root_tables): if root in tables:
\*     draw_relationships(root, set(), "", True, 0)
CallRoot ==
    /\ pc = "drawing" /\ stack = <<>> /\ ~root_called
    /\ root_idx <= Len(root_tables)
    /\ root_tables[root_idx] \in Keys(tables)
    /\ heap' = Append(heap, {})
    /\ stack' = <<CallOf(root_tables[root_idx], Len(heap) + 1, "", TRUE, 0, TRUE)>>
    /\ root_called' = TRUE
    /\ UNCHANGED <<pc, sql_content, normalized, renormalized, given, table_def, columns,
                   tables, relationships, tree, root_tables, lines, root_idx>>
    /\ UNCHANGED <<conversion, scanning, looping>>

\* a root that is not in tables is passed over
SkipRoot ==
    /\ pc = "drawing" /\ stack = <<>> /\ ~root_called
    /\ root_idx <= Len(root_tables)
    /\ root_tables[root_idx] \notin Keys(tables)
    /\ root_idx' = root_idx + 1
    /\ UNCHANGED <<pc, sql_content, normalized, renormalized, given, table_def, columns,
                   tables, relationships, tree, root_tables, lines, stack, heap,
                   root_called>>
    /\ UNCHANGED <<conversion, scanning, looping>>

\* if idx < len(root_tables) - 1: lines.append("")
AfterRoot ==
    /\ pc = "drawing" /\ stack = <<>> /\ root_called
    /\ lines' = lines \o (IF root_idx < Len(root_tables) THEN <<"">> ELSE <<>>)
    /\ root_idx' = root_idx + 1
    /\ root_called' = FALSE
    /\ UNCHANGED <<pc, sql_content, normalized, renormalized, given, table_def, columns,
                   tables, relationships, tree, root_tables, stack, heap>>
    /\ UNCHANGED <<conversion, scanning, looping>>

\* the orphan tables, and return lines
FinishDrawing ==
    /\ pc = "drawing" /\ stack = <<>> /\ ~root_called
    /\ root_idx > Len(root_tables)
    /\ lines' = lines \o StandaloneSection(OrphanTables(tables, tree))
    /\ pc' = "rendered"
    /\ UNCHANGED <<sql_content, normalized, renormalized, given, table_def, columns,
                   tables, relationships, tree, root_tables, stack, heap, root_idx,
                   root_called>>
    /\ UNCHANGED <<conversion, scanning, looping>>

\* if parent not in tables: return
\* if parent in visited and depth > 0: return
ReturnsAtOnce(frame) ==
    \/ frame.parent \notin Keys(tables)
    \/ frame.parent \in heap[frame.visited] /\ frame.depth > 0

ReturnAtOnce ==
    /\ pc = "drawing" /\ stack # <<>> /\ Top.at = "entry"
    /\ ReturnsAtOnce(Top)
    /\ stack' = Popped
    /\ UNCHANGED <<pc, sql_content, normalized, renormalized, given, table_def, columns,
                   tables, relationships, tree, root_tables, lines, heap, root_idx,
                   root_called>>
    /\ UNCHANGED <<conversion, scanning, looping>>

\* visited.add(parent); the table name if asked for; children, sorted
Expand ==
    /\ pc = "drawing" /\ stack # <<>> /\ Top.at = "entry"
    /\ ~ReturnsAtOnce(Top)
    /\ heap' = [heap EXCEPT ![Top.visited] = @ \cup {Top.parent}]
    /\ lines' = lines \o (IF Top.show_table_name THEN <<Top.prefix \o Top.parent>> ELSE <<>>)
    /\ stack' = WithTop([Top EXCEPT !.at = "loop", !.idx = 1,
                                    !.children = StableSort(ChildrenOf(tree, Top.parent))])
    /\ UNCHANGED <<pc, sql_content, normalized, renormalized, given, table_def, columns,
                   tables, relationships, tree, root_tables, root_idx, root_called>>
    /\ UNCHANGED <<conversion, scanning, looping>>

\* the child of the pass of the loop at hand
ChildAt(frame) == frame.children[frame.idx].child_table
\* elif child_has_children, after `if is_self_ref`
Recurses(frame) ==
    ChildAt(frame) # frame.parent /\ ChildrenOf(tree, ChildAt(frame)) # <<>>
\* the lines of one pass of the loop, before the call it may make
PassLines(frame) ==
    <<BranchLine(frame.children[frame.idx], frame.idx = Len(frame.children),
                 ConnectorPrefix(frame.prefix, frame.is_last, frame.show_table_name))>>
    \o (IF ChildAt(frame) = frame.parent
        THEN <<NewPrefix(frame.prefix, frame.idx = Len(frame.children)) \o SeeAbove>>
        ELSE IF Recurses(frame)
        THEN <<NewPrefix(frame.prefix, frame.idx = Len(frame.children)) \o ChildAt(frame)>>
        ELSE <<>>)

\* one pass of the loop over children that makes no call
Branch ==
    /\ pc = "drawing" /\ stack # <<>> /\ Top.at = "loop"
    /\ Top.idx <= Len(Top.children)
    /\ ~Recurses(Top)
    /\ lines' = lines \o PassLines(Top)
    /\ stack' = WithTop([Top EXCEPT !.idx = @ + 1])
    /\ UNCHANGED <<pc, sql_content, normalized, renormalized, given, table_def, columns,
                   tables, relationships, tree, root_tables, heap, root_idx, root_called>>
    /\ UNCHANGED <<conversion, scanning, looping>>

\* one pass of the loop that calls
\* draw_relationships(child_table, visited.copy(), new_prefix, is_last_child,
\*                    depth + 1, show_table_name=False)
Recurse ==
    /\ pc = "drawing" /\ stack # <<>> /\ Top.at = "loop"
    /\ Top.idx <= Len(Top.children)
    /\ Recurses(Top)
    /\ lines' = lines \o PassLines(Top)
    /\ heap' = VisitedCopy(heap, Top.visited).heap
    /\ stack' = Append(WithTop([Top EXCEPT !.idx = @ + 1]),
                       CallOf(ChildAt(Top), VisitedCopy(heap, Top.visited).ref,
                              NewPrefix(Top.prefix, Top.idx = Len(Top.children)),
                              Top.idx = Len(Top.children), Top.depth + 1, FALSE))
    /\ UNCHANGED <<pc, sql_content, normalized, renormalized, given, table_def, columns,
                   tables, relationships, tree, root_tables, root_idx, root_called>>
    /\ UNCHANGED <<conversion, scanning, looping>>

\* the loop over children is over: the call returns
Return ==
    /\ pc = "drawing" /\ stack # <<>> /\ Top.at = "loop"
    /\ Top.idx > Len(Top.children)
    /\ stack' = Popped
    /\ UNCHANGED <<pc, sql_content, normalized, renormalized, given, table_def, columns,
                   tables, relationships, tree, root_tables, lines, heap, root_idx,
                   root_called>>
    /\ UNCHANGED <<conversion, scanning, looping>>

\* the steps of the calls of draw_relationships and of the loop over the roots
DrawStep ==
    \/ CallRoot
    \/ SkipRoot
    \/ AfterRoot
    \/ FinishDrawing
    \/ ReturnAtOnce
    \/ Expand
    \/ Branch
    \/ Recurse
    \/ Return

NextDraw == BeginDrawing \/ DrawStep

\* the interpreter runs a call on: a step of the drawing that can be taken is
\* taken
SpecDraw == InitDraw /\ [][NextDraw]_vars /\ WF_vars(DrawStep)

(***************************************************************************)
(* main.py and validate.py: a CSV file converted to a YAML document and a  *)
(* JSON Schema, and a YAML document validated against the schema.          *)
(* A Python value (a CSV row, a loaded YAML document) is a record          *)
(* [type, text, items, entries]; a dict is the list of its entries         *)
(* [key, value] in insertion order.                                        *)
(***************************************************************************)
PyScalar(t, s) == [type |-> t, text |-> s, items |-> <<>>, entries |-> <<>>]
PyStr(s) == PyScalar("str", s)
PyNone == PyScalar("null", "")
PyList(xs) == [type |-> "seq", text |-> "", items |-> xs, entries |-> <<>>]
PyDict(es) == [type |-> "map", text |-> "", items |-> <<>>, entries |-> es]

\* k in d
HasKey(es, k) == \E i \in 1..Len(es) : es[i].key = k
\* d[k]
ValueAt(es, k) == es[CHOOSE i \in 1..Len(es) : es[i].key = k].value
\* d[k] = v: a key the dict holds keeps its place and takes the new value
Put(es, k, v) ==
    IF HasKey(es, k)
    THEN [i \in 1..Len(es) |-> IF es[i].key = k THEN [key |-> k, value |-> v] ELSE es[i]]
    ELSE Append(es, [key |-> k, value |-> v])

\* the lines of a text, the empty piece after a final line feed left out
AllLines(text) == PiecesAt(text, Sorted({i \in 1..Len(text) : Ch(text, i) = "\n"}))
CsvLines(text) ==
    IF AllLines(text)[Len(AllLines(text))] = ""
    THEN SubSeq(AllLines(text), 1, Len(AllLines(text)) - 1)
    ELSE AllLines(text)
\* csv.reader: the fields of each line, no field for an empty line; the
\* texts hold no quote character
CsvRecord(line) == IF line = "" THEN <<>> ELSE SplitComma(line)
CsvReader(text) == [i \in 1..Len(CsvLines(text)) |-> CsvRecord(CsvLines(text)[i])]

RECURSIVE ZipInto(_, _, _, _)
\* dict(zip(fieldnames, row)) of csv.DictReader
ZipInto(d, names, row, k) ==
    IF k > Len(names) \/ k > Len(row) THEN d
    ELSE ZipInto(Put(d, PyStr(names[k]), PyStr(row[k])), names, row, k + 1)

RECURSIVE RestInto(_, _, _)
\* for key in fieldnames[lr:]: d[key] = restval, restval None
RestInto(d, names, k) ==
    IF k > Len(names) THEN d
    ELSE RestInto(Put(d, PyStr(names[k]), PyNone), names, k + 1)

\* the fields past the last field name, under restkey None
RestOfRow(names, row) ==
    PyList([i \in 1..(Len(row) - Len(names)) |-> PyStr(row[Len(names) + i])])

\* one row of csv.DictReader
DictRow(names, row) ==
    IF Len(names) < Len(row)
    THEN Put(ZipInto(<<>>, names, row, 1), PyNone, RestOfRow(names, row))
    ELSE RestInto(ZipInto(<<>>, names, row, 1), names, Len(row) + 1)

\* csv.DictReader: the first record is the field names, empty records
\* after it are skipped
DataRecords(records) == SelectSeq(Tail(records), LAMBDA r : r # <<>>)
DictReader(records) ==
    [i \in 1..Len(DataRecords(records)) |->
        PyDict(DictRow(Head(records), DataRecords(records)[i]))]

(***************************************************************************)
(* YAML: a document is a tree of nodes [kind, style, text, items,          *)
(* entries]; a plain scalar takes the type its text resolves to, a quoted  *)
(* one is a string.                                                        *)
(***************************************************************************)
Scalar(style, s) ==
    [kind |-> "scalar", style |-> style, text |-> s, items |-> <<>>, entries |-> <<>>]
SeqNode(xs) ==
    [kind |-> "seq", style |-> "block", text |-> "", items |-> xs, entries |-> <<>>]
MapNode(es) ==
    [kind |-> "map", style |-> "block", text |-> "", items |-> <<>>, entries |-> es]

NullTexts == {"", "~", "null", "Null", "NULL"}
BoolTexts ==
    {"yes", "Yes", "YES", "no", "No", "NO", "true", "True", "TRUE",
     "false", "False", "FALSE", "on", "On", "ON", "off", "Off", "OFF"}
IsIntText(s) == s # "" /\ \A i \in 1..Len(s) : Ch(s, i) \in DigitCh
\* the implicit resolvers of the safe loader, floats and dates left out
Resolve(s) ==
    IF s \in NullTexts THEN "null"
    ELSE IF s \in BoolTexts THEN "bool"
    ELSE IF IsIntText(s) THEN "int"
    ELSE "str"

RECURSIVE Represent(_)
\* yaml.safe_dump: a string is written plain when its text would load as a
\* string, quoted otherwise; None is written null
Represent(v) ==
    CASE v.type = "str" ->
            Scalar(IF Resolve(v.text) = "str" THEN "plain" ELSE "quoted", v.text)
      [] v.type = "null" -> Scalar("plain", "null")
      [] v.type = "seq" -> SeqNode([i \in 1..Len(v.items) |-> Represent(v.items[i])])
      [] v.type = "map" ->
            MapNode([i \in 1..Len(v.entries) |->
                        [key |-> Represent(v.entries[i].key),
                         value |-> Represent(v.entries[i].value)]])
      [] OTHER -> Scalar("plain", v.text)

\* yaml.safe_dump(rows, yaml_file, sort_keys=False)
safe_dump(data) == Represent(PyList(data))

RECURSIVE Construct(_)
RECURSIVE ConstructEntries(_, _, _)
\* yaml.safe_load: the value of a node
Construct(n) ==
    CASE n.kind = "scalar" ->
            (IF n.style = "quoted" THEN PyStr(n.text)
             ELSE IF Resolve(n.text) = "null" THEN PyNone
             ELSE PyScalar(Resolve(n.text), n.text))
      [] n.kind = "seq" -> PyList([i \in 1..Len(n.items) |-> Construct(n.items[i])])
      [] OTHER -> PyDict(ConstructEntries(n.entries, 1, <<>>))

\* the dict of a mapping node: a key written twice keeps its last value
ConstructEntries(es, k, d) ==
    IF k > Len(es) THEN d
    ELSE ConstructEntries(es, k + 1, Put(d, Construct(es[k].key), Construct(es[k].value)))

\* load_yaml of validate.py
load_yaml(node) == Construct(node)

(***************************************************************************)
(* build_schema, and the Draft 2020-12 validation of the keywords it       *)
(* writes: type, items, properties, required, additionalProperties.        *)
(***************************************************************************)
RECURSIVE PropertiesOf(_, _, _)
\* {name: {"type": "string"} for name in fieldnames}
PropertiesOf(names, k, d) ==
    IF k > Len(names) THEN d
    ELSE PropertiesOf(names, k + 1, Put(d, names[k], [type |-> "string"]))

\* required taken from the keys of properties
build_schema_RequiredFromProperties(names) ==
    [type |-> "array",
     items |-> [type |-> "object",
                properties |-> PropertiesOf(names, 1, <<>>),
                required |-> [i \in 1..Len(PropertiesOf(names, 1, <<>>)) |->
                                 PropertiesOf(names, 1, <<>>)[i].key],
                additionalProperties |-> FALSE]]

build_schema(names) ==
    [type |-> "array",
     items |-> [type |-> "object",
                properties |-> PropertiesOf(names, 1, <<>>),
                required |-> names,
                additionalProperties |-> FALSE]]

\* the type test of the validator
IsType(instance, t) ==
    CASE t = "array" -> instance.type = "seq"
      [] t = "object" -> instance.type = "map"
      [] t = "string" -> instance.type = "str"
      [] OTHER -> FALSE

\* the errors of each keyword on one instance
TypeErrors(instance, sch) == IF IsType(instance, sch.type) THEN {} ELSE {"type"}

PropertyErrors(instance, sch) ==
    IF instance.type # "map" THEN {}
    ELSE UNION {IF HasKey(instance.entries, PyStr(sch.properties[p].key))
                THEN TypeErrors(ValueAt(instance.entries, PyStr(sch.properties[p].key)),
                                sch.properties[p].value)
                ELSE {} : p \in 1..Len(sch.properties)}

\* required left unasked
RequiredErrors_AsksNothing(instance, sch) == {}

\* required: every name of the list is a key of the object
RequiredErrors(instance, sch) ==
    IF instance.type # "map" THEN {}
    ELSE {"required" : r \in {x \in 1..Len(sch.required) :
                                 ~HasKey(instance.entries, PyStr(sch.required[x]))}}

AdditionalErrors(instance, sch) ==
    IF instance.type # "map" \/ sch.additionalProperties THEN {}
    ELSE {"additionalProperties" :
             e \in {x \in 1..Len(instance.entries) :
                       ~HasKey(sch.properties, instance.entries[x].key.text)
                       \/ instance.entries[x].key.type # "str"}}

ObjectErrors(instance, sch) ==
    TypeErrors(instance, sch) \cup PropertyErrors(instance, sch)
    \cup RequiredErrors(instance, sch) \cup AdditionalErrors(instance, sch)

\* Draft202012Validator(schema).iter_errors(data): items applies to an array
iter_errors(instance, sch) ==
    TypeErrors(instance, sch)
    \cup (IF instance.type = "seq"
          THEN UNION {ObjectErrors(instance.items[i], sch.items) : i \in 1..Len(instance.items)}
          ELSE {})

\* validator.validate(data): raises the best match of the errors, if any
validate(instance, sch) ==
    IF iter_errors(instance, sch) = {} THEN "returned" ELSE "ValidationError"

\* validate_yaml(yaml_file, schema_file)
validate_yaml(node, sch) == validate(load_yaml(node), sch)

(***************************************************************************)
(* A CSV file converted, its schema built, and a YAML document validated   *)
(* against the schema: the document the conversion wrote, or another one   *)
(* put in its place.                                                       *)
(***************************************************************************)
MaxFields == 2
MaxRows == 2
MaxYamlRows == 2

HeaderNames == {"id", "name"}
FieldTexts == {"1", ""}

\* every list of at most n members of S
ListsOver(S, n) == UNION {[1..k -> S] : k \in 0..n}

\* a file is its records, the header first; the file of no record is empty,
\* the header of no field an empty first line; a data row may be shorter or
\* longer than the header
CsvFiles ==
    {<<>>} \cup {<<h>> \o d : h \in ListsOver(HeaderNames, MaxFields),
                             d \in ListsOver(ListsOver(FieldTexts, MaxFields + 1), MaxRows)}

RECURSIVE CsvText(_)
\* one record a line, the fields between commas
CsvText(records) ==
    IF records = <<>> THEN ""
    ELSE JoinWith(Head(records), ",") \o "\n" \o CsvText(Tail(records))

\* the rows of a YAML document put in place of the written one: a mapping of
\* some of the keys id, name and zip to one value, or a bare scalar
YamlKeys == <<"id", "name", "zip">>
YamlValues == {Scalar("plain", "2"), Scalar("plain", "Al")}
KeyLists == {ks \in ListsOver(1..Len(YamlKeys), Len(YamlKeys)) :
                \A i, j \in 1..Len(ks) : i < j => ks[i] < ks[j]}
YamlRows ==
    {MapNode([i \in 1..Len(ks) |-> [key |-> Scalar("plain", YamlKeys[ks[i]]), value |-> v]]) :
        ks \in KeyLists, v \in YamlValues}
    \cup {Scalar("plain", "Al")}
YamlDocuments == {SeqNode(rs) : rs \in ListsOver(YamlRows, MaxYamlRows) \ {<<>>}}

InitConvert ==
    /\ NoScanning /\ NoDrawing /\ NoLooping
    /\ pc = "csv"
    /\ given \in CsvFiles
    /\ csv_file = CsvText(given)
    /\ fieldnames = <<>> /\ rows = <<>>
    /\ yaml_file = <<>> /\ json_schema = <<>> /\ outcome = "none"
    /\ sql_content = "" /\ normalized = "" /\ renormalized = ""
    /\ table_def = "" /\ columns = <<>>
    /\ tables = <<>> /\ relationships = <<>>
    /\ tree = <<>> /\ root_tables = <<>> /\ lines = <<>>

\* convert_csv_to_yaml: a file of no record has no field names
Convert ==
    /\ pc = "csv"
    /\ IF Len(CsvReader(csv_file)) = 0
       THEN /\ outcome' = "ValueError"
            /\ pc' = "failed"
            /\ UNCHANGED <<fieldnames, rows, yaml_file>>
       ELSE /\ fieldnames' = Head(CsvReader(csv_file))
            /\ rows' = DictReader(CsvReader(csv_file))
            /\ yaml_file' = safe_dump(DictReader(CsvReader(csv_file)))
            /\ outcome' = "returned"
            /\ pc' = "converted"
    /\ UNCHANGED <<csv_file, json_schema, given, sql_content, normalized, renormalized,
                   table_def, columns, tables, relationships, tree, root_tables, lines>>
    /\ UNCHANGED <<scanning, drawing, looping>>

\* build_schema(fieldnames), written and read back as JSON: a dict of
\* strings, lists and booleans, which JSON keeps as it is
BuildSchema ==
    /\ pc = "converted"
    /\ json_schema' = build_schema(fieldnames)
    /\ pc' = "schema"
    /\ UNCHANGED <<csv_file, fieldnames, rows, yaml_file, outcome, given, sql_content,
                   normalized, renormalized, table_def, columns, tables, relationships,
                   tree, root_tables, lines>>
    /\ UNCHANGED <<scanning, drawing, looping>>

\* validate_yaml on the document the conversion wrote
ValidateYaml ==
    /\ pc = "schema"
    /\ outcome' = validate_yaml(yaml_file, json_schema)
    /\ pc' = "validated"
    /\ UNCHANGED <<csv_file, fieldnames, rows, yaml_file, json_schema, given, sql_content,
                   normalized, renormalized, table_def, columns, tables, relationships,
                   tree, root_tables, lines>>
    /\ UNCHANGED <<scanning, drawing, looping>>

\* validate_yaml on another document, against the same schema
ValidateOther ==
    /\ pc = "schema"
    /\ \E doc \in YamlDocuments :
          /\ yaml_file' = doc
          /\ outcome' = validate_yaml(doc, json_schema)
    /\ pc' = "validated_other"
    /\ UNCHANGED <<csv_file, fieldnames, rows, json_schema, given, sql_content,
                   normalized, renormalized, table_def, columns, tables, relationships,
                   tree, root_tables, lines>>
    /\ UNCHANGED <<scanning, drawing, looping>>

NextConvert == Convert \/ BuildSchema \/ ValidateYaml \/ ValidateOther

SpecConvert == InitConvert /\ [][NextConvert]_vars

(***************************************************************************)
(* A short text of parentheses, commas, spaces and letters: scanned from   *)
(* one of its opening parentheses by each scanning site, and split as a    *)
(* table body.                                                             *)
(***************************************************************************)
MaxScanLen == 6
ScanChars == {"(", ")", ",", " ", "a"}

\* given is the position of the opening parenthesis, 0 when the text has none
InitScan ==
    /\ NoConversion /\ NoDrawing /\ NoLooping
    /\ pc = "raw"
    /\ sql_content \in StringsOver(ScanChars, MaxScanLen)
    /\ given \in {p \in 1..Len(sql_content) : Ch(sql_content, p) = "("} \cup {0}
    /\ table_def = sql_content
    /\ spans = <<>> /\ fragments = <<>>
    /\ normalized = "" /\ renormalized = "" /\ columns = <<>>
    /\ tables = <<>> /\ relationships = <<>>
    /\ tree = <<>> /\ root_tables = <<>> /\ lines = <<>>

\* the scan of each site from the parenthesis at given
ScanSites ==
    /\ pc = "raw"
    /\ given > 0
    /\ spans' = [table_body |-> TableBodySpan(sql_content, given),
                 column_check |-> ColumnCheckSpan(sql_content, given),
                 table_check |-> TableCheckSpan(sql_content, given),
                 alter_check |-> AlterCheckSpan(sql_content, given),
                 index |-> IndexSpan(sql_content, given)]
    /\ pc' = "scanned"
    /\ UNCHANGED <<sql_content, normalized, renormalized, given, table_def, columns,
                   tables, relationships, tree, root_tables, lines, fragments>>
    /\ UNCHANGED <<conversion, drawing, looping>>

\* _split_table_definition(table_def)
SplitDefinition ==
    /\ pc = "raw"
    /\ fragments' = SplitLoop(table_def, 1, "", 0, <<>>)
    /\ pc' = "split"
    /\ UNCHANGED <<sql_content, normalized, renormalized, given, table_def, columns,
                   tables, relationships, tree, root_tables, lines, spans>>
    /\ UNCHANGED <<conversion, drawing, looping>>

NextScan == ScanSites \/ SplitDefinition

SpecScan == InitScan /\ [][NextScan]_vars

\* the payloads of the clauses of one kind, in the order written
RECURSIVE PayloadsOf(_, _)
PayloadsOf(cl, kind) ==
    IF cl = <<>> THEN <<>>
    ELSE (IF Head(cl).k = kind THEN <<Head(cl).e>> ELSE <<>>) \o PayloadsOf(Tail(cl), kind)

\* C1: normalizing a normalized text changes nothing:
\* _normalize_sql(_normalize_sql(x)) = _normalize_sql(x) for every text x.
C1_NormalizeIdempotent == pc = "renormalized" => renormalized = normalized

\* C2: a fragment's CHECK ( e ) clauses, e with balanced nested parentheses,
\* are recorded one entry per clause, in order, each entry the whole text
\* between the clause's parentheses.
C2_ColumnChecksOnePerClause ==
    (pc = "parsed" /\ Len(columns) = 1)
        => columns[1].check_constraints = PayloadsOf(given.clauses, "check")

\* C9: a stored default is never longer than 50 characters: a default of more
\* than 50 characters is stored as its first 47 characters and "...", a
\* shorter one unchanged.
C9_DefaultTruncated ==
    (pc = "parsed" /\ Len(columns) = 1) =>
        LET lits == PayloadsOf(given.clauses, "default")
            stored == columns[1].default_value
        IN IF lits = <<>> THEN stored = None
           ELSE /\ stored # None
                /\ Len(stored[1]) <= 50
                /\ Len(lits[1]) > 50 => stored[1] = SubSeq(lits[1], 1, 47) \o "..."
                /\ Len(lits[1]) <= 50 => stored[1] = lits[1]

C9_Witness ==
    /\ pc = "parsed" /\ Len(columns) = 1
    /\ PayloadsOf(given.clauses, "default") # <<>>
    /\ Len(PayloadsOf(given.clauses, "default")[1]) = 51
    /\ Len(given.clauses) > 1
    /\ columns[1].default_value = Some(SubSeq(LiteralChars, 1, 47) \o "...")

\* C10: a fragment with both the NOT NULL and the UNIQUE marker, in either
\* order, other clauses between or around them, gives is_nullable = FALSE and
\* is_unique = TRUE; a fragment with neither gives TRUE and FALSE.
C10_NullableUniqueFlags ==
    (pc = "parsed" /\ Len(columns) = 1) =>
        LET nn == CountOf(given.clauses, "notnull") > 0
            un == CountOf(given.clauses, "unique") > 0
        IN /\ (nn /\ un) => (~columns[1].is_nullable /\ columns[1].is_unique)
           /\ (~nn /\ ~un) => (columns[1].is_nullable /\ ~columns[1].is_unique)

\* what the claims say of the stored columns: name, type and the two flags
Shown(c) ==
    [name |-> c.name, data_type |-> c.data_type,
     is_nullable |-> c.is_nullable, is_unique |-> c.is_unique]
PlainColumn(c) ==
    [name |-> c.name, data_type |-> c.type, is_nullable |-> TRUE, is_unique |-> FALSE]

\* C3: a CREATE TABLE whose body is n plain definitions "name TYPE" registers
\* a Table with exactly those n columns, in the order of the body, each with
\* the declared type text, nullable and not unique.
C3_PlainColumnsKept ==
    pc = "parsed"
        => /\ Keys(tables) = {"t"}
           /\ [i \in 1..Len(tables[1].columns) |-> Shown(tables[1].columns[i])]
                = [i \in 1..Len(given) |-> PlainColumn(given[i])]

\* the statements of a document that name a table the registry does not hold
TargetedKinds == {"alter_fk", "alter_check", "index", "comment"}
HasUnknownTarget(st) == st.kind \in TargetedKinds /\ st.target \notin Keys(tables)
WithoutUnknownTargets(d) == SelectSeq(d, LAMBDA st : ~HasUnknownTarget(st))

\* C4: an ALTER TABLE foreign key or check, a CREATE INDEX or a COMMENT ON
\* TABLE whose table is not in the registry adds nothing to any table and no
\* entry to the registry: the document parses as it does without them.
C4_UnknownTargetsAddNothing ==
    pc = "parsed"
        => /\ tables = parse(DocumentText(WithoutUnknownTargets(given))).tables
           /\ relationships = parse(DocumentText(WithoutUnknownTargets(given))).relationships

\* the names the registry holds: of checks, and at the head of index descriptors
CheckNames(registry) ==
    UNION {{registry[k].check_constraints[c].name :
               c \in 1..Len(registry[k].check_constraints)} : k \in 1..Len(registry)}
IndexDescriptors(registry) ==
    UNION {{registry[k].indexes[c] : c \in 1..Len(registry[k].indexes)} :
              k \in 1..Len(registry)}
Unterminated(d, kind) == {d[k].mark : k \in {x \in 1..Len(d) : d[x].kind = kind /\ ~d[x].closed}}

\* C5: a statement whose parentheses never close before the text ends leaves
\* nothing: an unterminated CREATE TABLE registers no table, an unterminated
\* ALTER TABLE ... CHECK attaches no check, an unterminated CREATE INDEX
\* attaches no index.
C5_UnterminatedDropped ==
    pc = "parsed"
        => /\ \A m \in Unterminated(given, "create") : m \notin Keys(tables)
           /\ \A m \in Unterminated(given, "alter_check") : Some(m) \notin CheckNames(tables)
           /\ \A m \in Unterminated(given, "index") :
                  \A x \in IndexDescriptors(tables) : ~StartsWith(x, m \o " ")

\* C5 happens: a document with a table and the three unterminated statements
\* that fit beside it, parsed, the table registered.
C5_Witness ==
    /\ pc = "parsed"
    /\ given = <<CreateParent, AlterCheckOpen, IndexOpen>>
    /\ Keys(tables) = {"parent"}

EndsWith(s, p) == Len(p) <= Len(s) /\ SubSeq(s, Len(s) - Len(p) + 1, Len(s)) = p

\* the text of a line after the connectors and the indentation before it
AfterConnectors(line) == LStripSet(line, {" ", "|", "+", "-"})
\* the table a line of the rendering names: its first word
TableOn(line) ==
    SubSeq(AfterConnectors(line), 1,
           Least({k \in 1..(Len(AfterConnectors(line)) + 1) :
                     k = Len(AfterConnectors(line)) + 1 \/ Ch(AfterConnectors(line), k) = " "}) - 1)
IsBranch(line) == Contains(line, BranchConnector) \/ Contains(line, LastBranchConnector)

\* the tables whose foreign keys, one or more, all reference the table itself
SelfOnly(registry) ==
    {KeyOf(registry[k]) : k \in {x \in 1..Len(registry) :
        /\ registry[x].foreign_keys # <<>>
        /\ \A f \in 1..Len(registry[x].foreign_keys) :
               registry[x].foreign_keys[f].to_table = KeyOf(registry[x])}}
SelfKeys(registry, n) == Len(Lookup(registry, n).foreign_keys)
\* the lines that are a branch to n
BranchesTo(n) == {i \in 1..Len(lines) : IsBranch(lines[i]) /\ TableOn(lines[i]) = n}

TwoTables(d) ==
    /\ \E k \in 1..Len(d) : d[k] = CreateParent
    /\ \E k \in 1..Len(d) : d[k] = CreateChild
    /\ \A k \in 1..Len(d) : d[k].kind \in {"create", "index", "comment"}
    /\ \A k \in 1..Len(d) : d[k].kind = "create" => d[k] \in {CreateParent, CreateChild}

\* C7: for a document of the two tables parent(id) and child(id, parent_id),
\* child declaring parent_id a foreign key to parent(id), parent is the only
\* root and child its only descendant, the edge carrying the columns
\* parent_id and id.
C7_ParentIsRoot ==
    (pc = "rendered" /\ TwoTables(given))
        => /\ root_tables = <<"parent">>
           /\ tree = <<[parent |-> "parent",
                        children |-> <<[child_table |-> "child",
                                        from_cols |-> <<"parent_id">>,
                                        to_cols |-> <<"id">>,
                                        constraint |-> "unnamed"]>>]>>
           /\ ChildrenOf(tree, "child") = <<>>

\* C7 happens: the document of the two tables, rendered.
C7_Witness ==
    /\ pc = "rendered"
    /\ given = <<CreateParent, CreateChild>>
    /\ root_tables = <<"parent">>

\* the foreign keys of a registry, and the tables none of them names
AllForeignKeys(registry) ==
    UNION {{registry[k].foreign_keys[f] : f \in 1..Len(registry[k].foreign_keys)} :
              k \in 1..Len(registry)}
Unconnected(registry) ==
    Keys(registry) \ ({f.from_table : f \in AllForeignKeys(registry)}
                      \cup {f.to_table : f \in AllForeignKeys(registry)})
\* the lines of the standalone section, and those before it
HeaderAt == {i \in 1..Len(lines) : lines[i] = StandaloneHeader}
ListedStandalone(n) == \E h \in HeaderAt : \E i \in (h + 1)..Len(lines) : lines[i] = n
OnTree(n) ==
    \E i \in 1..Len(lines) : (\A h \in HeaderAt : i < h) /\ TableOn(lines[i]) = n
StandaloneKept ==
    \A n \in Unconnected(tables) : ListedStandalone(n) /\ ~OnTree(n)

\* C8 as stated: in every rendering, with foreign keys in the registry or
\* without, every table no foreign key names is listed in the standalone
\* section and is on no line of a tree.
C8_StandaloneAlways == pc = "rendered" => StandaloneKept

\* where C8 holds and where it does not: when the registry holds a foreign
\* key, every table no foreign key names is listed in the standalone section
\* and is on no line of a tree; when it holds none, the rendering is the one
\* line "No relationships defined." and lists no table.
C8_StandaloneWhenRelated ==
    pc = "rendered"
        => IF AllForeignKeys(tables) # {} THEN StandaloneKept
           ELSE lines = <<NoRelationships>>

\* a registry with a foreign key and a table no key names, rendered, the
\* table in the standalone section
C8_ListedWhenRelated ==
    /\ pc = "rendered"
    /\ AllForeignKeys(tables) # {}
    /\ "c" \in Unconnected(tables)
    /\ ListedStandalone("c")

\* C11: for a CSV file with a header row, whatever the number of fields of
\* its data rows, the YAML document convert_csv_to_yaml wrote validates
\* against build_schema of the field names: validate_yaml returns.
C11_ConvertedYamlValidates ==
    (pc = "validated" /\ Len(given) > 0 /\ Len(given[1]) > 0) => outcome = "returned"

\* the keys a row of a YAML document is written with
RowKeyTexts(row) ==
    IF row.kind = "map" THEN {row.entries[i].key.text : i \in 1..Len(row.entries)} ELSE {}
MissesField(row) == \E k \in 1..Len(fieldnames) : fieldnames[k] \notin RowKeyTexts(row)
HasOtherKey(row) ==
    \E t \in RowKeyTexts(row) : \A k \in 1..Len(fieldnames) : fieldnames[k] # t

\* C12: against the schema of a non-empty list of fields, a YAML document
\* with a row that lacks one of the fields, or that has a key which is not a
\* field, is never accepted: validate_yaml raises ValidationError.
C12_IncompleteRowRejected ==
    (/\ pc \in {"validated", "validated_other"}
     /\ Len(fieldnames) > 0
     /\ \E i \in 1..Len(yaml_file.items) :
            MissesField(yaml_file.items[i]) \/ HasOtherKey(yaml_file.items[i]))
        => outcome = "ValidationError"

\* C12 happens: the schema of id and name, the document "- {id: 2}"
\* validated and refused.
C12_Witness ==
    /\ pc = "validated_other"
    /\ fieldnames = <<"id", "name">>
    /\ yaml_file = SeqNode(<<MapNode(<<[key |-> Scalar("plain", "id"),
                                        value |-> Scalar("plain", "2")]>>)>>)
    /\ outcome = "ValidationError"

\* C13: the schema of a list of field names is an array schema whose items
\* require the list as given, in its order, have the names of the list, and
\* no other, as properties, each of type string.
C13_SchemaMatchesFields ==
    pc \in {"schema", "validated", "validated_other"}
        => /\ json_schema.type = "array"
           /\ json_schema.items.required = fieldnames
           /\ {json_schema.items.properties[i].key :
                  i \in 1..Len(json_schema.items.properties)}
                = {fieldnames[k] : k \in 1..Len(fieldnames)}
           /\ \A i \in 1..Len(json_schema.items.properties) :
                  json_schema.items.properties[i].value.type = "string"

\* C13 happens: a schema built for a list that names a field twice.
C13_Witness ==
    /\ pc = "schema"
    /\ fieldnames = <<"name", "name">>
    /\ Len(json_schema.items.properties) = 1

\* the first position from start at which the depth, 1 at start, is back to
\* 0, if there is one
ClosingOf(text, start) ==
    {k \in start..Len(text) :
        /\ DepthAfter(text, start, k, 1) = 0
        /\ \A x \in start..(k - 1) : DepthAfter(text, start, x, 1) # 0}
\* what a scan from just after the parenthesis at open is to find
SpanAfter(text, open) ==
    IF ClosingOf(text, open + 1) = {} THEN NotClosed
    ELSE [closed |-> TRUE,
          text |-> SubSeq(text, open + 1, Least(ClosingOf(text, open + 1)) - 1),
          past |-> Least(ClosingOf(text, open + 1)) + 1]

\* C14: started just after an opening parenthesis with depth 1, the scan
\* ends just past the first closing parenthesis at which the depth is back
\* to zero, or finds the text unterminated when it ends first; the five
\* sites (table body, inline CHECK, table-level CHECK, ALTER TABLE CHECK,
\* index column list) find this same span for the same text and
\* parenthesis, and so does the scan the parsing passes are modelled with.
C14_ScansAgree ==
    pc = "scanned"
        => /\ spans.table_body = SpanAfter(sql_content, given)
           /\ spans.column_check = spans.table_body
           /\ spans.table_check = spans.table_body
           /\ spans.alter_check = spans.table_body
           /\ spans.index = spans.table_body
           /\ ScanParens(sql_content, given + 1, 1).paren_depth = 0 <=> spans.table_body.closed
           /\ spans.table_body.closed
                 => ScanParens(sql_content, given + 1, 1).i = spans.table_body.past

\* C14 happens: a nested parenthesis scanned to its end, past an inner pair.
C14_Witness ==
    /\ pc = "scanned"
    /\ sql_content = "a((a))"
    /\ given = 2
    /\ spans.table_check = [closed |-> TRUE, text |-> "(a)", past |-> 7]

\* a text whose parentheses are balanced: the depth never below zero, and
\* zero at the end
Balanced(text) ==
    /\ \A k \in 1..Len(text) : DepthAfter(text, 1, k, 0) >= 0
    /\ DepthAfter(text, 1, Len(text), 0) = 0
HasTopComma(text) ==
    \E k \in 1..Len(text) : Ch(text, k) = "," /\ DepthAfter(text, 1, k - 1, 0) = 0
\* a text without its spaces
Squeeze(text) == JoinWith(SelectSeq([k \in 1..Len(text) |-> Ch(text, k)], LAMBDA c : c # " "), "")
\* a text without the comma it ends with, if it ends with one
WithoutLastComma(text) ==
    IF text # "" /\ Ch(text, Len(text)) = "," THEN SubSeq(text, 1, Len(text) - 1) ELSE text

\* C15: a table body with balanced parentheses is split at every comma at
\* depth zero and at no other: the fragments are the pieces between those
\* commas, none holds a comma at depth zero, each is balanced, and joined
\* with commas they give the body again, up to the spaces trimmed and an
\* empty last fragment dropped.
C15_SplitAtTopCommas ==
    (pc = "split" /\ Balanced(table_def))
        => /\ fragments = _split_table_definition(table_def)
           /\ Len(fragments) \in {Len(CommaCuts(table_def)), Len(CommaCuts(table_def)) + 1}
           /\ \A i \in 1..Len(fragments) :
                  Balanced(fragments[i]) /\ ~HasTopComma(fragments[i])
           /\ Squeeze(JoinWith(fragments, ","))
                \in {Squeeze(table_def), WithoutLastComma(Squeeze(table_def))}

\* C15 happens: a body with a comma inside parentheses and one outside.
C15_Witness ==
    /\ pc = "split"
    /\ table_def = "a(,),a"
    /\ fragments = <<"a(,)", "a">>

\* the column fragments of a body that have the marker, and its clauses
MarkedColumns(d) == SelectSeq(d, LAMBDA f : f.kind = "column" /\ f.marked)
KeyClauses(d) == SelectSeq(d, LAMBDA f : f.kind = "clause")

\* C16: when column fragments of the body have a PRIMARY KEY marker,
\* primary_key_columns is the leading identifiers of those fragments, in
\* order; otherwise, when the body has a [CONSTRAINT name] PRIMARY KEY (...)
\* clause, it is the column list of a clause, quotes stripped; otherwise it
\* is empty.
C16_PrimaryKeyColumns ==
    pc = "parsed"
        => /\ Keys(tables) = {"t"}
           /\ IF MarkedColumns(given) # <<>>
              THEN tables[1].primary_key_columns
                      = [i \in 1..Len(MarkedColumns(given)) |-> MarkedColumns(given)[i].names[1]]
              ELSE IF KeyClauses(given) # <<>>
              THEN \E i \in 1..Len(KeyClauses(given)) :
                      tables[1].primary_key_columns = KeyClauses(given)[i].names
              ELSE tables[1].primary_key_columns = <<>>

\* whether the registry holds, on the table a statement names, what it adds
Attached(registry, st) ==
    /\ st.target \in Keys(registry)
    /\ CASE st.kind = "alter_fk" ->
                \E f \in 1..Len(Lookup(registry, st.target).foreign_keys) :
                    Lookup(registry, st.target).foreign_keys[f].constraint_name = st.mark
         [] st.kind = "alter_check" ->
                \E c \in 1..Len(Lookup(registry, st.target).check_constraints) :
                    Lookup(registry, st.target).check_constraints[c].name = Some(st.mark)
         [] st.kind = "index" ->
                \E x \in 1..Len(Lookup(registry, st.target).indexes) :
                    StartsWith(Lookup(registry, st.target).indexes[x], st.mark \o " ")
         [] st.kind = "comment" -> Lookup(registry, st.target).comment = Some(st.mark)
         [] OTHER -> FALSE

AttachPasses == {"alter_fk", "alter_check", "indexes", "comments"}

\* the closed attaching statements of a document whose table is registered
Attachable(d, registry) ==
    {k \in 1..Len(d) : d[k].kind \in TargetedKinds /\ d[k].closed
                           /\ d[k].target \in Keys(registry)}

\* C17: no attach pass runs before the table pass has finished, and none adds
\* a table; so, after the last pass, every closed ALTER TABLE foreign key or
\* check, CREATE INDEX and COMMENT ON TABLE that names a registered table is
\* attached to it, whether the table's CREATE TABLE stands before or after.
C17_TablesBeforeAttaching ==
    /\ [](pc = "comments" => \A k \in Attachable(given, tables) : Attached(tables, given[k]))
    /\ [][pc' \in AttachPasses
             => (pc \in {"tables"} \cup AttachPasses /\ Keys(tables') = Keys(tables))]_vars

\* C17 happens: after the last pass, a statement written before the CREATE
\* TABLE of its table is attached to that table.
C17_Witness ==
    /\ pc = "comments"
    /\ \E k \in Attachable(given, tables) :
           /\ \A j \in 1..k : given[j].kind = "create" => given[j].target # given[k].target
           /\ Attached(tables, given[k])

\* the ForeignKey an ALTER TABLE statement describes
DescribedForeignKey(st) ==
    [from_table |-> st.table, from_columns |-> st.cols, to_table |-> st.parent,
     to_columns |-> st.cols, constraint_name |-> st.name]

\* C18: whichever of the heads ALTER TABLE T, ALTER TABLE ONLY T, ALTER TABLE
\* IF EXISTS T and ALTER TABLE ONLY IF EXISTS T a statement ADD CONSTRAINT n
\* FOREIGN KEY (cols) REFERENCES P (cols) has, T registered and optionally
\* schema-qualified, it adds exactly one ForeignKey to T: from T to P, with
\* the listed columns and the name n.
C18_AlterHeadsAddOneForeignKey ==
    pc = "parsed"
        => /\ given.table \in Keys(tables)
           /\ Lookup(tables, given.table).foreign_keys = <<DescribedForeignKey(given)>>

\* the tables some foreign key of the registry references, and those of them
\* that reference no table but themselves
ParentKeys(registry) == {f.to_table : f \in AllForeignKeys(registry)}
ChildOfAnother(registry, n) ==
    \E f \in AllForeignKeys(registry) : f.from_table = n /\ f.to_table # n
ClearParents(registry) == {n \in ParentKeys(registry) : ~ChildOfAnother(registry, n)}
ExpectedRoots(registry) ==
    IF ClearParents(registry) = {} THEN ParentKeys(registry) ELSE ClearParents(registry)

\* the lines before the standalone section that start a tree: not blank, not
\* indented, not a branch
TopLines == {i \in 1..Len(lines) : /\ \A h \in HeaderAt : i < h
                                   /\ lines[i] # ""
                                   /\ Ch(lines[i], 1) \notin {" ", "|", "+"}}
TopNames == [k \in 1..Cardinality(TopLines) |-> lines[Sorted(TopLines)[k]]]

\* C19: the roots are the parents that are a child under no other parent, a
\* reference of a table to itself not counting, or every parent when there
\* is no such parent; they are kept in ascending order of name, and the
\* trees of the registered ones are drawn in that order.
C19_RootsDetectedAndSorted ==
    (pc = "rendered" /\ AllForeignKeys(tables) # {})
        => /\ {root_tables[r] : r \in 1..Len(root_tables)} = ExpectedRoots(tables)
           /\ \A r, q \in 1..Len(root_tables) : r < q => StrLess(root_tables[r], root_tables[q])
           /\ TopNames = SelectSeq(root_tables, LAMBDA n : n \in Keys(tables))

\* C19 happens: two roots are drawn, one of them referencing itself, in a
\* registry that stores them in descending order of name.
C19_Witness ==
    /\ pc = "rendered"
    /\ Len(root_tables) >= 2
    /\ \E r \in 1..Len(root_tables) :
           \E f \in AllForeignKeys(tables) :
               f.from_table = root_tables[r] /\ f.to_table = root_tables[r]
    /\ Len(TopNames) >= 2
    /\ \E i, j \in 1..Len(tables) :
           i < j /\ KeyOf(tables[i]) = TopNames[2] /\ KeyOf(tables[j]) = TopNames[1]

\* C19 happens also by the fall-back: every parent is a child of another one,
\* and every parent is a root.
C19_FallBack ==
    /\ pc = "rendered"
    /\ AllForeignKeys(tables) # {}
    /\ ClearParents(tables) = {}
    /\ Len(root_tables) >= 2

\* the calls under way that have passed their two checks, and the tables
\* they draw: the path from the root to the call at hand
Expanded(upto) == {j \in 1..upto : stack[j].at = "loop"}
PathTables(upto) == {stack[j].parent : j \in Expanded(upto)}

\* no table is drawn by two calls under way, and no call is deeper than the
\* number of tables
PathExpandsOnce ==
    /\ \A i, j \in Expanded(Len(stack)) : i # j => stack[i].parent # stack[j].parent
    /\ \A i \in 1..Len(stack) : stack[i].depth = i - 1 /\ stack[i].depth <= Len(tables)

\* every call under way has a set object of its own, which holds the tables
\* of the path down to the call and no table of another branch
VisitedIsThePath ==
    /\ \A i, j \in 1..Len(stack) : i # j => stack[i].visited # stack[j].visited
    /\ \A i \in 1..Len(stack) : heap[stack[i].visited] = PathTables(i)

\* a call returns without drawing only for a table of its own path
CutOnlyOnThePath ==
    (stack # <<>> /\ stack' = Popped /\ Top.at = "entry")
        => Top.parent \in PathTables(Len(stack) - 1)

\* C20: for every registry, with self references and with cycles through
\* several tables, the rendering ends; every call has its own copy of the
\* visited set, holding the tables of its path only; no table is expanded
\* twice on one path and no call is deeper than the number of tables; a
\* table reached again on another branch is expanded again there.
C20_RenderingTerminates ==
    /\ (pc = "drawing") ~> (pc = "rendered")
    /\ [][PathExpandsOnce' /\ VisitedIsThePath' /\ CutOnlyOnThePath]_vars

\* C20 happens: a table with children is expanded under a second branch of
\* the same root, after a call of a branch now finished had expanded it.
C20_Witness ==
    /\ pc = "drawing"
    /\ Len(stack) >= 2
    /\ Top.at = "loop"
    /\ \E r \in 1..Len(heap) :
           /\ r > stack[1].visited
           /\ \A i \in 1..Len(stack) : stack[i].visited # r
           /\ Top.parent \in heap[r]

\* C20 happens also on a cycle through three tables: the call for the table
\* the path began with returns at once
C20_CycleCut ==
    /\ pc = "drawing"
    /\ Len(stack) = 4
    /\ Top.at = "entry"
    /\ Top.parent = stack[1].parent

\* a pass of the while loop of _parse_tables leaves the cursor past the
\* opening parenthesis it matched, and not past the end of the text
CursorMovesOn ==
    (pc = "tables" /\ pc' = "tables")
        => /\ cursor < CreateMatchAt.e
           /\ Ch(normalized, CreateMatchAt.e - 1) = "("
           /\ cursor' >= CreateMatchAt.e
           /\ cursor' <= Len(normalized) + 1

\* a pass of the for loop of _parse_alter_table_foreign_keys reads no more
\* than its two windows, and leaves one match less to handle
WindowIsBounded ==
    (pc = "alter_fk" /\ pc' = "alter_fk")
        => /\ Len(Window(normalized, Head(pending).e, AddConstraintWindow))
                 <= AddConstraintWindow
           /\ Len(Window(normalized, Head(pending).e, ForeignKeyWindow)) <= ForeignKeyWindow
           /\ Len(pending') = Len(pending) - 1

\* inside the loops the pass at hand changes the state: the scan of a pass
\* of _parse_tables ends past the cursor
PassChangesState ==
    (pc = "tables" /\ cursor <= Len(normalized) /\ CreateMatchAt.ok) => ScanAt.i > cursor

\* C21: every pass of the loop of _parse_tables moves the cursor forward,
\* past the opening parenthesis it matched at least; every pass over an
\* ALTER TABLE match reads a window of bounded size; and parse, once it has
\* entered the loops, reaches its end.
C21_ParseTerminates ==
    /\ (pc = "tables") ~> (pc = "parsed")
    /\ []PassChangesState
    /\ [][CursorMovesOn /\ WindowIsBounded]_vars

\* C21 happens: the loop of _parse_tables has made two passes, the second
\* from where the first scan ended.
C21_Witness ==
    /\ pc = "tables"
    /\ Len(tables) = 2
    /\ cursor > 1
    /\ cursor <= Len(normalized)

\* C21 happens also at the window: of two ALTER TABLE statements the first
\* has its window end before the ADD CONSTRAINT of the second, and the
\* foreign key is added once, by the second
C21_BeyondWindow ==
    /\ pc = "parsed"
    /\ Len(normalized) > AddConstraintWindow
    /\ Len(relationships) = 1

RECURSIVE EdgeCount(_)
\* the number of edges of a tree
EdgeCount(tr) == IF tr = <<>> THEN 0 ELSE Len(Head(tr).children) + EdgeCount(Tail(tr))

\* the foreign keys of the registry that reference a table, in the order of
\* the registry, and the edge the tree is to hold for one
KeysTo(registry, parent) ==
    SelectSeq(ForeignKeysIn(registry, 1), LAMBDA f : f.to_table = parent)
EdgeFor(f) ==
    [child_table |-> f.from_table, from_cols |-> f.from_columns,
     to_cols |-> f.to_columns, constraint |-> f.constraint_name]

\* C22: the tree holds, under every table some foreign key references, one
\* edge for each such key, in the order of the registry, with the owning
\* table as child and the key's columns and name; keys that repeat give
\* edges that repeat, so the tree has as many edges as the registry has
\* foreign keys; and the registry is left as it was.
C22_OneEdgePerForeignKey ==
    pc = "rendered"
        => /\ TreeKeys(tree) = ParentKeys(tables)
           /\ \A i, j \in 1..Len(tree) : i # j => tree[i].parent # tree[j].parent
           /\ \A p \in ParentKeys(tables) :
                  ChildrenOf(tree, p)
                      = [k \in 1..Len(KeysTo(tables, p)) |-> EdgeFor(KeysTo(tables, p)[k])]
           /\ EdgeCount(tree) = Len(ForeignKeysIn(tables, 1))
           /\ tables = [i \in 1..Len(given.order) |->
                           TableWith(TableNames[given.order[i]], given.fks[given.order[i]])]

\* C22 happens: a table with two foreign keys to the same table, rendered,
\* the tree holding the same edge twice.
C22_Witness ==
    /\ pc = "rendered"
    /\ \E k \in 1..Len(tree) :
           /\ Len(tree[k].children) >= 2
           /\ tree[k].children[1] = tree[k].children[2]
    /\ EdgeCount(tree) >= 3

\* the lines of the entity diagram that open a block, in order, and the
\* lines that draw a relationship
BlockHeaders == Sorted({k \in 1..Len(lines) : StartsWith(lines[k], "entity ")})
RelationLines == {k \in 1..Len(lines) : Contains(lines[k], " ||--o{ ")}
\* the lines of the block a header opens: those before the next closing brace
BlockOf(h) ==
    {k \in (h + 1)..Len(lines) : \A j \in (h + 1)..k : lines[j] # "}"}
\* the columns a block marks as primary key and as foreign key
EntityColumnNames == {"id", "p_id", "x_id"}
MarkedPK(h) ==
    {c \in EntityColumnNames :
        \E k \in BlockOf(h) : StartsWith(lines[k], "  * " \o c \o " : ")
                              /\ EndsWith(lines[k], " <<PK>>")}
MarkedFK(h) ==
    {c \in EntityColumnNames :
        \E k \in BlockOf(h) : StartsWith(lines[k], "  - " \o c \o " : ")
                              /\ EndsWith(lines[k], " <<FK>>")}
\* the table whose key has i - 1 keys of the registry before it
TableOfRank(i) ==
    CHOOSE t \in {tables[k] : k \in 1..Len(tables)} :
        Cardinality({u \in Keys(tables) : StrLess(u, KeyOf(t))}) = i - 1
\* the members of a sequence
Members(xs) == {xs[k] : k \in 1..Len(xs)}
\* the foreign keys given to the tables of the registry, as pairs of the
\* names of parent and child, and how many a pair has
GivenPairs ==
    {<<given.order[i], k>> : i \in 1..Len(given.order), k \in 1..MaxForeignKeys}
        \cap {p \in (1..Len(EntityTables)) \X (1..MaxForeignKeys) :
                 p[2] <= Len(given.fks[p[1]])}
PairLine(p) ==
    given.fks[p[1]][p[2]].to_name \o " ||--o{ " \o EntityTables[p[1]].name \o " : "

\* C23: the entity diagram has one block for every table of the registry,
\* the blocks in ascending order of the keys of the tables; a block marks
\* as PK exactly the primary key columns of its table and as FK exactly the
\* from-columns of its foreign keys that are no primary key columns; and
\* there is one relationship line for every foreign key, the referenced
\* table first, the owning table second, with ||--o{ between them.
C23_EntityDiagram ==
    pc = "emitted"
        => /\ Len(BlockHeaders) = Len(tables)
           /\ \A i \in 1..Len(BlockHeaders) :
                  /\ lines[BlockHeaders[i]]
                         = "entity \"" \o TableOfRank(i).name \o "\" as "
                               \o TableOfRank(i).name \o " {"
                  /\ MarkedPK(BlockHeaders[i]) = Members(TableOfRank(i).primary_key_columns)
                  /\ MarkedFK(BlockHeaders[i])
                         = UNION {Members(f.from_columns) :
                                     f \in Members(TableOfRank(i).foreign_keys)}
                           \ Members(TableOfRank(i).primary_key_columns)
           /\ Cardinality(RelationLines) = Len(relationships)
           /\ \A p \in GivenPairs :
                  Cardinality({k \in RelationLines : StartsWith(lines[k], PairLine(p))})
                      = Cardinality({q \in GivenPairs : PairLine(q) = PairLine(p)})

\* C23 happens: two tables stored against the order of their keys, one in a
\* schema, one with a foreign key on a primary key column and one on
\* another column, and the diagram emitted.
C23_Witness ==
    /\ pc = "emitted"
    /\ Len(tables) = 2
    /\ StrLess(KeyOf(tables[2]), KeyOf(tables[1]))
    /\ \E i \in 1..2 : tables[i].schema = "s"
    /\ \E i \in 1..2 :
           /\ MarkedPK(BlockHeaders[i]) # {}
           /\ MarkedFK(BlockHeaders[i]) # {}
           /\ \E f \in Members(TableOfRank(i).foreign_keys) :
                  Members(f.from_columns) \cap MarkedPK(BlockHeaders[i]) # {}
    /\ Cardinality(RelationLines) >= 2

\* the descriptor of a statement: name (columns), and USING method when
\* the statement gives a method
DescriptorOf(st) ==
    st.index.name \o " (" \o st.list.columns \o ")"
    \o (IF st.shape = "plain" THEN "" ELSE " USING " \o IndexMethod)
\* the statements of the document on a table
StatementsOn(key) == SelectSeq(given, LAMBDA st : st.target.key = key)
\* how often a sequence holds a value
CountIn(xs, x) == Cardinality({k \in 1..Len(xs) : xs[k] = x})

\* C24: every CREATE INDEX statement on a registered table, with no method,
\* with USING before the column list, after it or directly before the
\* parenthesis, adds one descriptor name (columns) to the indexes of that
\* table, with USING method at its end exactly when the statement gives a
\* method; the indexes of a table hold no more than one descriptor for each
\* statement on it, so no statement is recorded by both patterns.
C24_OneDescriptorPerIndex ==
    pc = "parsed"
        => \A t \in 1..Len(tables) :
               /\ Len(tables[t].indexes) = Len(StatementsOn(KeyOf(tables[t])))
               /\ \A k \in 1..Len(StatementsOn(KeyOf(tables[t]))) :
                      CountIn(tables[t].indexes, DescriptorOf(StatementsOn(KeyOf(tables[t]))[k]))
                          = Cardinality({j \in 1..Len(StatementsOn(KeyOf(tables[t]))) :
                                DescriptorOf(StatementsOn(KeyOf(tables[t]))[j])
                                    = DescriptorOf(StatementsOn(KeyOf(tables[t]))[k])})

\* C24 happens: two statements on the same table, one with the method
\* before the column list and one with it directly before the parenthesis,
\* parsed, the table holding two descriptors.
C24_Witness ==
    /\ pc = "parsed"
    /\ Len(given) = 2
    /\ given[1].shape = "before" /\ given[2].shape = "direct"
    /\ \E t \in 1..Len(tables) :
           /\ Len(tables[t].indexes) = 2
           /\ \A k \in 1..2 : EndsWith(tables[t].indexes[k], " USING " \o IndexMethod)

\* C24 happens also for the method after the column list
C24_MethodAfter ==
    /\ pc = "parsed"
    /\ Len(given) = 1 /\ given[1].shape = "after" /\ given[1].list.text = "lower(a)"
    /\ \E t \in 1..Len(tables) : tables[t].indexes = <<"i (lower(a)) USING gin">>

\* C25: in every registered table the names of the columns are pairwise
\* distinct, whatever the body of the CREATE TABLE.
C25_ColumnNamesDistinct ==
    pc = "parsed"
        => \A t \in 1..Len(tables) :
               \A i, j \in 1..Len(tables[t].columns) :
                   i # j => tables[t].columns[i].name # tables[t].columns[j].name

RECURSIVE ColumnsWritten(_)
\* the names of the column definitions of a body, in order
ColumnsWritten(body) ==
    IF body = <<>> THEN <<>>
    ELSE (IF Head(body).kind = "column" THEN <<Head(body).name>> ELSE <<>>)
         \o ColumnsWritten(Tail(body))
\* no fragment of the body holds a comma outside parentheses
SplitsAsWritten(body) ==
    \A k \in 1..Len(body) : body[k].kind = "column" => ~Contains(body[k].text, ",")

\* C30: every fragment of the body that begins with an identifier and is
\* no table-level constraint clause gives one Column, in order, a column
\* named unique_id, check_in or constraint_type as any other; the
\* constraint clauses give none.
C30_OneColumnPerDefinition ==
    (pc = "parsed" /\ SplitsAsWritten(given))
        => /\ Keys(tables) = {"t"}
           /\ [k \in 1..Len(tables[1].columns) |-> tables[1].columns[k].name]
                  = ColumnsWritten(given)

\* the key of a table written with or without a schema: public is left out
KeyWritten(written) ==
    CASE written \in {"t", "public.t"} -> "t"
      [] written = "s.t" -> "s.t"
      [] written \in {"p", "public.p"} -> "p"
      [] written = "s.p" -> "s.p"
\* what a later statement of a kind leaves on the table it reaches
Reached(table, kind) ==
    CASE kind = "fk" -> \E k \in 1..Len(table.foreign_keys) :
                            /\ table.foreign_keys[k].constraint_name = "fk"
                            /\ table.foreign_keys[k].from_table = KeyWritten(given.created)
                            /\ table.foreign_keys[k].to_table = KeyWritten(given.to)
      [] kind = "check" -> \E k \in 1..Len(table.check_constraints) :
                               table.check_constraints[k].name = Some("ck")
      [] kind = "index" -> table.indexes = <<"i (a)">>
      [] kind = "comment" -> table.comment = Some("c")

\* C26: a table created as t or as public.t is stored under the key t, a
\* table created as s.t under s.t; its foreign keys have from_table and
\* to_table written by the same rule; and an ALTER TABLE, CREATE INDEX or
\* COMMENT ON TABLE statement reaches the table exactly when the name it
\* writes gives the same key, so public.t and t reach the table created
\* either way and s.t does not.
C26_PublicSchemaOmitted ==
    pc = "parsed"
        => /\ Keys(tables) = {KeyWritten(given.created)}
           /\ tables[1].foreign_keys[1].from_table = KeyWritten(given.created)
           /\ tables[1].foreign_keys[1].to_table = KeyWritten(given.to)
           /\ \A kind \in LaterKinds :
                  Reached(tables[1], kind)
                      <=> (kind \in given.kinds
                           /\ KeyWritten(given.ref) = KeyWritten(given.created))

\* C26 happens: the table created as t, the four later statements written
\* with public.t, all four reaching it.
C26_Witness ==
    /\ pc = "parsed"
    /\ given.created = "t" /\ given.ref = "public.t" /\ given.kinds = LaterKinds
    /\ Keys(tables) = {"t"}
    /\ \A kind \in LaterKinds : Reached(tables[1], kind)

\* the tables that own a foreign key of a constraint name, one for each key
OwnersOf(registry, constraint_name) ==
    SelectSeq(ForeignKeysIn(registry, 1), LAMBDA f : f.constraint_name = constraint_name)
\* the constraint names the ALTER TABLE statements of a document write
\* before FOREIGN KEY, and the names of all its other statements
AlterForeignKeyNames(d) == {d[k].mark : k \in {x \in 1..Len(d) : d[x].kind = "alter_fk"}}
OtherNames(d) == {d[k].mark : k \in {x \in 1..Len(d) : d[x].kind \notin {"alter_fk", "create"}}}

\* the foreign keys the CREATE TABLE statements write in the body of a table
BodyKeys(key) == IF key \in {"child", "employees"} THEN 1 ELSE 0

\* C27: an ADD CONSTRAINT ... FOREIGN KEY clause gives at most one
\* ForeignKey, owned by the table its own ALTER TABLE statement names; an
\* ALTER TABLE statement without such a clause (ADD COLUMN, ADD CONSTRAINT
\* ... CHECK) gives its table no ForeignKey, whatever follows it.
C27_ForeignKeyOnlyOnItsTable ==
    pc = "parsed"
        => /\ \A k \in 1..Len(given) :
                  given[k].kind = "alter_fk"
                      => /\ Len(OwnersOf(tables, given[k].mark)) <= 1
                         /\ \A i \in 1..Len(OwnersOf(tables, given[k].mark)) :
                                OwnersOf(tables, given[k].mark)[i].from_table = given[k].target
           /\ \A m \in OtherNames(given) : OwnersOf(tables, m) = <<>>
           /\ \A t \in 1..Len(tables) :
                  Len(tables[t].foreign_keys)
                      <= BodyKeys(KeyOf(tables[t]))
                         + Cardinality({k \in 1..Len(given) :
                               given[k].kind = "alter_fk" /\ given[k].target = KeyOf(tables[t])})

\* C28: when the registry holds a foreign key, every registered table is
\* named on a line of the rendering, in a tree or in the standalone list:
\* also a table on a cycle no root reaches, and a table whose only parent
\* is not registered.
C28_EveryTableRendered ==
    (pc = "rendered" /\ AllForeignKeys(tables) # {})
        => \A n \in Keys(tables) : OnTree(n) \/ ListedStandalone(n)

\* C29: every CREATE TABLE statement of the document whose parentheses
\* balance is registered, whatever the other statements are: a statement
\* whose parenthesis never closes takes only itself out of the result.
C29_BalancedTablesRegistered ==
    pc = "parsed"
        => \A k \in 1..Len(given) :
               (given[k].kind = "create" /\ given[k].closed) => given[k].mark \in Keys(tables)

====
